---------------------------- MODULE Spec2Model ----------------------------
(***************************************************************************)
(* Model of the pyBIyoyo data pipeline: the DataProcessor transforms       *)
(* (src/utils/data_processor.py), the DataLoader file loading              *)
(* (src/utils/data_loader.py), the DatabaseConnector                       *)
(* (src/utils/database_connector.py) and the pages of the app that hold    *)
(* the working tables (src/app.py).                                        *)
(*                                                                         *)
(* A table (pandas DataFrame) is a record                                  *)
(*   [cols, kinds, idx, rows]                                              *)
(* cols  : sequence of column names                                        *)
(* kinds : sequence of "num" / "text" (the dtype family of each column)    *)
(* idx   : sequence of row labels (the pandas index)                       *)
(* rows  : sequence of rows, each a sequence of cells                      *)
(* A cell is NA (<<>>), a number <<n, d>> (the rational n/d in lowest      *)
(* terms, d > 0), a standard-scaled number <<"sqrt", n, d>> (the real      *)
(* sign(n) * sqrt(|n| / d)) or a text value <<s>>.                         *)
(***************************************************************************)
EXTENDS Integers, Sequences, FiniteSets, TLC

VARIABLES
    df,        \* the caller's table, passed to the DataProcessor methods
    scalers,   \* DataProcessor.scalers
    encoders,  \* DataProcessor.encoders
    last,      \* the last DataProcessor call and what it returned or raised
    source,    \* the file or byte stream handed to the DataLoader
    loaded,    \* the last DataLoader call and what it returned or raised
    conn,      \* a DatabaseConnector, its database and its last call
    session    \* st.session_state of the app and the last run of a page

vars == <<df, scalers, encoders, last, source, loaded, conn, session>>

procVars == <<df, scalers, encoders, last>>
loadVars == <<source, loaded>>
appVars  == <<conn, session>>

-----------------------------------------------------------------------------
(* Bounds of the model *)

\* rows of the exhaustively enumerated input tables
MaxRows == 2

-----------------------------------------------------------------------------
(* Rational arithmetic (the float arithmetic of pandas, kept exact) *)

Abs(x) == IF x < 0 THEN -x ELSE x

RECURSIVE GCD(_, _)
GCD(a, b) == IF b = 0 THEN a ELSE GCD(b, a % b)

\* the rational n/d in lowest terms, d # 0
Rat(n, d) ==
    LET g == GCD(Abs(n), Abs(d))
        s == IF d < 0 THEN -1 ELSE 1
    IN  <<(s * n) \div g, (s * d) \div g>>

RInt(n) == <<n, 1>>
RAdd(x, y) == Rat(x[1] * y[2] + y[1] * x[2], x[2] * y[2])
RSub(x, y) == Rat(x[1] * y[2] - y[1] * x[2], x[2] * y[2])
RMul(x, y) == Rat(x[1] * y[1], x[2] * y[2])
\* y # 0
RDiv(x, y) == Rat(x[1] * y[2], x[2] * y[1])
RLess(x, y) == x[1] * y[2] < y[1] * x[2]
RLeq(x, y)  == x[1] * y[2] <= y[1] * x[2]

RECURSIVE RSum(_)
RSum(s) == IF s = <<>> THEN RInt(0) ELSE RAdd(Head(s), RSum(Tail(s)))

-----------------------------------------------------------------------------
(* Cells, columns and tables *)

NA == <<>>
IsNA(c) == c = NA

Range(s) == {s[i] : i \in DOMAIN s}

RECURSIVE SelectIdx(_, _, _)
\* the indices i of 1..n, in order, kept by keep[i]
SelectIdx(n, keep, i) ==
    IF i > n THEN <<>>
    ELSE (IF keep[i] THEN <<i>> ELSE <<>>) \o SelectIdx(n, keep, i + 1)

NRows(t) == Len(t.rows)
NCols(t) == Len(t.cols)

\* position of column name c in t (0 when absent): `c in df.columns`
ColPos(t, c) ==
    IF \E j \in 1..NCols(t) : t.cols[j] = c
    THEN CHOOSE j \in 1..NCols(t) : t.cols[j] = c
    ELSE 0

HasCol(t, c) == ColPos(t, c) # 0

\* df[col] as a sequence of cells
Column(t, j) == [i \in 1..NRows(t) |-> t.rows[i][j]]

\* the non-missing cells of a column, in row order
Present(col) ==
    LET keep == [i \in 1..Len(col) |-> ~IsNA(col[i])]
        ks   == SelectIdx(Len(col), keep, 1)
    IN  [k \in 1..Len(ks) |-> col[ks[k]]]

\* the rows ks (a sequence of positions) of t, labels kept
TakeRows(t, ks) ==
    [t EXCEPT !.idx  = [k \in 1..Len(ks) |-> t.idx[ks[k]]],
              !.rows = [k \in 1..Len(ks) |-> t.rows[ks[k]]]]

\* the columns js (a sequence of positions) of t
TakeCols(t, js) ==
    [t EXCEPT !.cols  = [k \in 1..Len(js) |-> t.cols[js[k]]],
              !.kinds = [k \in 1..Len(js) |-> t.kinds[js[k]]],
              !.rows  = [i \in 1..NRows(t) |->
                            [k \in 1..Len(js) |-> t.rows[i][js[k]]]]]

\* DataFrame.reset_index(drop=True): the labels become 0..n-1
\* (variant) the row labels are left as the filter left them
keep_index(t) == t

reset_index(t) == [t EXCEPT !.idx = [i \in 1..NRows(t) |-> i - 1]]

\* (variant) dropna(how='all') where dropna() is meant
dropna_any_as_all(t) ==
    LET keep == [i \in 1..NRows(t) |->
                    \E j \in 1..NCols(t) : ~IsNA(t.rows[i][j])]
    IN  TakeRows(t, SelectIdx(NRows(t), keep, 1))

\* (variant) dropna() where dropna(how='all') is meant
dropna_all_as_any(t) ==
    LET keep == [i \in 1..NRows(t) |->
                    \A j \in 1..NCols(t) : ~IsNA(t.rows[i][j])]
    IN  TakeRows(t, SelectIdx(NRows(t), keep, 1))

\* DataFrame.dropna(): the rows with no missing cell
dropna_any(t) ==
    LET keep == [i \in 1..NRows(t) |->
                    \A j \in 1..NCols(t) : ~IsNA(t.rows[i][j])]
    IN  TakeRows(t, SelectIdx(NRows(t), keep, 1))

\* DataFrame.dropna(how='all'): the rows with at least one present cell
dropna_rows_all(t) ==
    LET keep == [i \in 1..NRows(t) |->
                    \E j \in 1..NCols(t) : ~IsNA(t.rows[i][j])]
    IN  TakeRows(t, SelectIdx(NRows(t), keep, 1))

\* DataFrame.dropna(axis=1, how='all'): the columns with a present cell
dropna_cols_all(t) ==
    LET keep == [j \in 1..NCols(t) |->
                    \E i \in 1..NRows(t) : ~IsNA(t.rows[i][j])]
    IN  TakeCols(t, SelectIdx(NCols(t), keep, 1))

\* df.select_dtypes(include=[np.number]).columns, as positions
NumericCols(t) ==
    SelectIdx(NCols(t), [j \in 1..NCols(t) |-> t.kinds[j] = "num"], 1)

\* df.select_dtypes(exclude=[np.number]).columns, as positions
NonNumericCols(t) ==
    SelectIdx(NCols(t), [j \in 1..NCols(t) |-> t.kinds[j] # "num"], 1)

AllCols(t) == [j \in 1..NCols(t) |-> j]

MissingCount(t) ==
    Cardinality({<<i, j>> \in (1..NRows(t)) \X (1..NCols(t)) :
                    IsNA(t.rows[i][j])})

-----------------------------------------------------------------------------
(* Column statistics *)

\* lexicographic order of the text values the model uses ("nan" is what
\* astype(str) makes of a missing cell)
TextOrder ==
    <<"0", "0.0", "1", "1.0", "100", "100.0", "2", "2.0", "3", "3.0",
      "4", "4.0", "9", "9.0", "nan", "x", "y", "z">>

TextRank(s) == CHOOSE i \in 1..Len(TextOrder) : TextOrder[i] = s

\* the order Series.mode() and sorting use within one column
CellLess(kind, a, b) ==
    IF kind = "num" THEN RLess(a, b) ELSE TextRank(a[1]) < TextRank(b[1])

\* the present cells of a column in ascending order
Sorted(kind, col) ==
    SortSeq(Present(col), LAMBDA a, b : CellLess(kind, a, b))

\* (variant) the sum divided by the length of the column, missing cells
\* counted
mean_over_len(col) ==
    LET p == Present(col)
    IN  IF Len(p) = 0 THEN NA ELSE RDiv(RSum(p), RInt(Len(col)))

\* Series.mean(): NA for a column with no present cell
mean(col) ==
    LET p == Present(col)
    IN  IF Len(p) = 0 THEN NA ELSE RDiv(RSum(p), RInt(Len(p)))

\* Series.median(): NA for a column with no present cell
median(col) ==
    LET s == Sorted("num", col)
        n == Len(s)
    IN  IF n = 0 THEN NA
        ELSE IF n % 2 = 1 THEN s[(n + 1) \div 2]
        ELSE RDiv(RAdd(s[n \div 2], s[n \div 2 + 1]), RInt(2))

CountOf(col, v) == Cardinality({i \in 1..Len(col) : col[i] = v})

\* Series.mode(): the most frequent present values, ascending; empty for
\* a column with no present cell
mode(kind, col) ==
    LET p    == Present(col)
        best == {v \in Range(p) : \A w \in Range(p) : CountOf(col, w) <= CountOf(col, v)}
        keep == [i \in 1..Len(p) |->
                    /\ p[i] \in best
                    /\ \A k \in 1..(i - 1) : p[k] # p[i]]
        ks   == SelectIdx(Len(p), keep, 1)
    IN  Sorted(kind, [k \in 1..Len(ks) |-> p[ks[k]]])

\* Series.fillna(value): a NaN value fills nothing
fillna(t, j, v) ==
    IF IsNA(v) THEN t
    ELSE [t EXCEPT !.rows = [i \in 1..NRows(t) |->
            [t.rows[i] EXCEPT ![j] = IF IsNA(@) THEN v ELSE @]]]

-----------------------------------------------------------------------------
(* Objects: which table object a local name is bound to.                   *)
(* A binding is [t, isIn, inp]: t the content of the object the name       *)
(* refers to, isIn whether that object is the caller's input table, inp    *)
(* the content of the caller's input table.                                *)

\* a name bound to the caller's own table
Input(d) == [t |-> d, isIn |-> TRUE, inp |-> d]

\* an alias of the input instead of a copy
DfAlias(d) == [t |-> d, isIn |-> TRUE, inp |-> d]

\* df.copy(): a new object with the same content
DfCopy(d) == [t |-> d, isIn |-> FALSE, inp |-> d]

\* the name is bound to a new object (the result of a pandas call that
\* returns a new frame)
Rebind(b, t) == [t |-> t, isIn |-> FALSE, inp |-> b.inp]

\* the object the name refers to is changed in place
Mutate(b, t) ==
    [t |-> t, isIn |-> b.isIn, inp |-> IF b.isIn THEN t ELSE b.inp]

NoTable == [cols |-> <<>>, kinds |-> <<>>, idx |-> <<>>, rows |-> <<>>]

\* a call that returned the object of binding b
Returned(b, sc, en) ==
    [outcome |-> "ok", out |-> b.t, outIsIn |-> b.isIn, inp |-> b.inp,
     scalers |-> sc, encoders |-> en]

\* a call that raised the exception class e, the processor state left as given
Raised(e, b, sc, en) ==
    [outcome |-> e, out |-> NoTable, outIsIn |-> FALSE, inp |-> b.inp,
     scalers |-> sc, encoders |-> en]

-----------------------------------------------------------------------------
(* DataProcessor.handle_missing_values *)

\* the method names of handle_missing_values (data_processor.py:30,33,46,59)
M_DROP   == "drop_rows"      \* "删除含缺失值的行"
M_MEAN   == "fill_mean"      \* "用均值填充"
M_MEDIAN == "fill_median"    \* "用中位数填充"
M_MODE   == "fill_mode"      \* "用众数填充"

\* the value a fill policy puts into column j: the mean or median for the
\* first loop, the first mode (when one exists) for the mode loops
FillValue(t, j, how) ==
    LET col == Column(t, j)
        m   == mode(t.kinds[j], col)
    IN  CASE how = "mean"   -> mean(col)
          [] how = "median" -> median(col)
          [] OTHER          -> IF Len(m) = 0 THEN NA ELSE m[1]

RECURSIVE FillCols(_, _, _)
\* for col in js: df_processed[col].fillna(<how>, inplace=True)
FillCols(t, js, how) ==
    IF js = <<>> THEN t
    ELSE FillCols(fillna(t, Head(js), FillValue(t, Head(js), how)), Tail(js), how)

handle_missing_values(d, method, sc, en) ==
    LET b0 == DfCopy(d)
        b1 == CASE method = M_DROP ->
                    Rebind(b0, dropna_any(b0.t))
                [] method = M_MEAN ->
                    Mutate(b0, FillCols(FillCols(b0.t, NumericCols(b0.t), "mean"),
                                        NonNumericCols(b0.t), "mode"))
                [] method = M_MEDIAN ->
                    Mutate(b0, FillCols(FillCols(b0.t, NumericCols(b0.t), "median"),
                                        NonNumericCols(b0.t), "mode"))
                [] method = M_MODE ->
                    Mutate(b0, FillCols(b0.t, AllCols(b0.t), "mode"))
                [] OTHER -> b0
    IN  Returned(Rebind(b1, reset_index(b1.t)), sc, en)

-----------------------------------------------------------------------------
(* DataProcessor.remove_duplicates *)

\* DataFrame.duplicated(subset): row i repeats an earlier row on columns js
\* (missing cells compare equal to each other)
Duplicated(t, js, i) ==
    \E k \in 1..(i - 1) : \A m \in 1..Len(js) : t.rows[k][js[m]] = t.rows[i][js[m]]

\* (variant) keep="last": the last occurrence of each row is kept
drop_duplicates_keep_last(t, js) ==
    TakeRows(t, SelectIdx(NRows(t),
        [i \in 1..NRows(t) |->
            ~\E k \in (i + 1)..NRows(t) :
                \A m \in 1..Len(js) : t.rows[k][js[m]] = t.rows[i][js[m]]], 1))

\* (variant) one pass removes only the last repeat of each row
drop_duplicates_last_only(t, js) ==
    TakeRows(t, SelectIdx(NRows(t),
        [i \in 1..NRows(t) |->
            \/ ~\E k \in 1..(i - 1) :
                    \A m \in 1..Len(js) : t.rows[k][js[m]] = t.rows[i][js[m]]
            \/ \E k \in (i + 1)..NRows(t) :
                    \A m \in 1..Len(js) : t.rows[k][js[m]] = t.rows[i][js[m]]], 1))

\* DataFrame.drop_duplicates(subset): the first occurrence of each row
drop_duplicates(t, js) ==
    TakeRows(t, SelectIdx(NRows(t), [i \in 1..NRows(t) |-> ~Duplicated(t, js, i)], 1))

\* a column selection: [given |-> FALSE] is None; positions of the names
ColPositions(t, names) == [k \in 1..Len(names) |-> ColPos(t, names[k])]

AllPresent(t, names) == \A k \in 1..Len(names) : HasCol(t, names[k])

remove_duplicates(d, subset, sc, en) ==
    LET b0 == Input(d)
    IN  IF subset.given /\ ~AllPresent(d, subset.names)
        THEN Raised("KeyError", b0, sc, en)
        ELSE LET js == IF subset.given THEN ColPositions(d, subset.names)
                       ELSE AllCols(d)
                 b1 == Rebind(b0, drop_duplicates(b0.t, js))
             IN  Returned(Rebind(b1, reset_index(b1.t)), sc, en)

-----------------------------------------------------------------------------
(* DataProcessor.remove_outliers *)

\* Series.quantile(k/4), linear interpolation between the order statistics;
\* NA for a column with no present cell
quantile(col, k) ==
    LET s    == Sorted("num", col)
        n    == Len(s)
        lo   == ((n - 1) * k) \div 4
        frac == Rat(((n - 1) * k) % 4, 4)
    IN  IF n = 0 THEN NA
        ELSE IF frac = RInt(0) THEN s[lo + 1]
        ELSE RAdd(s[lo + 1], RMul(frac, RSub(s[lo + 2], s[lo + 1])))

\* (df[col] >= lower_bound) & (df[col] <= upper_bound); a comparison with a
\* missing cell or a missing bound is False
IqrMask(t, j) ==
    LET col   == Column(t, j)
        Q1    == quantile(col, 1)
        Q3    == quantile(col, 3)
        IQR   == RSub(Q3, Q1)
        reach == RMul(Rat(3, 2), IQR)
        lower_bound == RSub(Q1, reach)
        upper_bound == RAdd(Q3, reach)
    IN  [i \in 1..NRows(t) |->
            /\ ~IsNA(Q1)
            /\ ~IsNA(col[i])
            /\ RLeq(lower_bound, col[i])
            /\ RLeq(col[i], upper_bound)]

\* Series.std() squared (ddof = 1); NA for fewer than two present cells
SampleVar(col) ==
    LET p == Present(col)
        m == mean(col)
        sq == [i \in 1..Len(p) |-> RMul(RSub(p[i], m), RSub(p[i], m))]
    IN  IF Len(p) < 2 THEN NA ELSE RDiv(RSum(sq), RInt(Len(p) - 1))

\* np.abs((df[col] - mean) / std) < 3, i.e. (x - mean)^2 < 9 * std^2 with
\* std > 0; a missing cell, a missing std and 0/0 give False
ZscoreMask(t, j) ==
    LET col == Column(t, j)
        m   == mean(col)
        v   == SampleVar(col)
    IN  [i \in 1..NRows(t) |->
            /\ ~IsNA(v)
            /\ v # RInt(0)
            /\ ~IsNA(col[i])
            /\ RLess(RMul(RSub(col[i], m), RSub(col[i], m)), RMul(RInt(9), v))]

RECURSIVE OutlierLoop(_, _, _)
\* for col in columns: if col in df_processed.columns: df_processed =
\* df_processed[mask]; the statistics of a text column raise TypeError
OutlierLoop(b, names, method) ==
    IF names = <<>> THEN [b |-> b, err |-> "ok"]
    ELSE LET j == ColPos(b.t, Head(names))
         IN  IF j = 0 THEN OutlierLoop(b, Tail(names), method)
             ELSE IF b.t.kinds[j] # "num" THEN [b |-> b, err |-> "TypeError"]
             ELSE LET mask == IF method = "iqr" THEN IqrMask(b.t, j)
                              ELSE ZscoreMask(b.t, j)
                      kept == TakeRows(b.t, SelectIdx(NRows(b.t), mask, 1))
                  IN  OutlierLoop(Rebind(b, kept), Tail(names), method)

ColNames(t, js) == [k \in 1..Len(js) |-> t.cols[js[k]]]

remove_outliers(d, columns, method, sc, en) ==
    LET b0    == DfCopy(d)
        names == IF columns.given THEN columns.names
                 ELSE ColNames(b0.t, NumericCols(b0.t))
        r     == IF method \in {"iqr", "zscore"}
                 THEN OutlierLoop(b0, names, method)
                 ELSE [b |-> b0, err |-> "ok"]
    IN  IF r.err # "ok" THEN Raised(r.err, r.b, sc, en)
        ELSE Returned(Rebind(r.b, reset_index(r.b.t)), sc, en)

-----------------------------------------------------------------------------
(* DataProcessor.normalize_data *)
(* scalers is a set of groups [cols, state]: the keys in cols all map to   *)
(* one scaler object whose fitted state is state.  Two keys map to the     *)
(* same object exactly when they are in the same group.                    *)

\* StandardScaler() / MinMaxScaler() before any fit, and after a fit that
\* raised (fit resets the estimator before it validates the data)
Unfitted(kind) ==
    [kind |-> kind, fitted |-> FALSE, col |-> <<>>, p1 |-> NA, p2 |-> NA]

\* population variance (ddof = 0) of the present cells
PopVar(col) ==
    LET p == Present(col)
        m == mean(col)
        sq == [i \in 1..Len(p) |-> RMul(RSub(p[i], m), RSub(p[i], m))]
    IN  IF Len(p) = 0 THEN NA ELSE RDiv(RSum(sq), RInt(Len(p)))

ColMin(col) == LET s == Sorted("num", col) IN IF Len(s) = 0 THEN NA ELSE s[1]
ColMax(col) == LET s == Sorted("num", col) IN IF Len(s) = 0 THEN NA ELSE s[Len(s)]

\* scaler.fit(df[[col]]): the parameters learnt from one column
\* standard: p1 = mean_, p2 = var_;  minmax: p1 = data_min_, p2 = data_max_
Fitted(kind, name, col) ==
    [kind |-> kind, fitted |-> TRUE, col |-> name,
     p1 |-> IF kind = "standard" THEN mean(col) ELSE ColMin(col),
     p2 |-> IF kind = "standard" THEN PopVar(col) ELSE ColMax(col)]

SignedSquare(x) == IF x[1] < 0 THEN RSub(RInt(0), RMul(x, x)) ELSE RMul(x, x)

\* scaler.transform of one cell; a constant column is scaled by 1 and a
\* missing cell stays missing
Scale(st, x) ==
    IF IsNA(x) \/ IsNA(st.p1) THEN NA
    ELSE IF st.kind = "standard"
    THEN (IF st.p2 = RInt(0) THEN RSub(x, st.p1)
          ELSE LET q == RDiv(SignedSquare(RSub(x, st.p1)), st.p2)
               IN  <<"sqrt", q[1], q[2]>>)
    ELSE (IF st.p1 = st.p2 THEN RSub(x, st.p1)
          ELSE RDiv(RSub(x, st.p1), RSub(st.p2, st.p1)))

\* sklearn's input validation of df[[col]]: text that is no number, and a
\* frame with no row, raise ValueError
FitRaises(t, j) ==
    \/ NRows(t) = 0
    \/ t.kinds[j] # "num" /\ \E i \in 1..NRows(t) : ~IsNA(t.rows[i][j])

SetColumn(t, j, kind, col) ==
    [t EXCEPT !.kinds[j] = kind,
              !.rows = [i \in 1..NRows(t) |-> [t.rows[i] EXCEPT ![j] = col[i]]]]

RECURSIVE NormalizeLoop(_, _, _, _)
\* for col in columns: if col in df_processed.columns: fit_transform, then
\* self.scalers[col] = scaler.  done: the keys assigned so far; st: the state
\* of the one scaler object the call created
NormalizeLoop(b, names, st, done) ==
    IF names = <<>> THEN [b |-> b, err |-> "ok", st |-> st, done |-> done]
    ELSE LET j == ColPos(b.t, Head(names))
         IN  IF j = 0 THEN NormalizeLoop(b, Tail(names), st, done)
             ELSE IF FitRaises(b.t, j)
             THEN [b |-> b, err |-> "ValueError", st |-> Unfitted(st.kind),
                   done |-> done]
             ELSE LET f   == Fitted(st.kind, Head(names), Column(b.t, j))
                      col == [i \in 1..NRows(b.t) |-> Scale(f, b.t.rows[i][j])]
                  IN  NormalizeLoop(Mutate(b, SetColumn(b.t, j, "num", col)),
                                    Tail(names), f, done \cup {Head(names)})

\* the scalers map after the keys in done were assigned the object with
\* state st
AssignScaler(sc, done, st) ==
    {[g EXCEPT !.cols = g.cols \ done] : g \in {h \in sc : h.cols \ done # {}}}
        \cup (IF done = {} THEN {} ELSE {[cols |-> done, state |-> st]})

normalize_data(d, columns, method, sc, en) ==
    LET b0    == DfCopy(d)
        names == IF columns.given THEN columns.names
                 ELSE ColNames(b0.t, NumericCols(b0.t))
    IN  IF method \notin {"standard", "minmax"}
        THEN Raised("ValueError", b0, sc, en)
        ELSE LET r == NormalizeLoop(b0, names, Unfitted(method), {})
             IN  IF r.err # "ok"
                 THEN Raised(r.err, r.b, AssignScaler(sc, r.done, r.st), en)
                 ELSE Returned(r.b, AssignScaler(sc, r.done, r.st), en)

-----------------------------------------------------------------------------
(* DataProcessor.encode_categorical *)

\* str(n) of an integer cell of an int64 (float = FALSE) or float64 column
NumStr(n, float) ==
    CASE n = 0 -> IF float THEN "0.0" ELSE "0"
      [] n = 1 -> IF float THEN "1.0" ELSE "1"
      [] n = 2 -> IF float THEN "2.0" ELSE "2"
      [] n = 3 -> IF float THEN "3.0" ELSE "3"
      [] n = 4 -> IF float THEN "4.0" ELSE "4"
      [] n = 9 -> IF float THEN "9.0" ELSE "9"
      [] n = 100 -> IF float THEN "100.0" ELSE "100"

\* a numeric column that holds a missing cell is float64, otherwise int64
IsFloatCol(col) == \E i \in 1..Len(col) : IsNA(col[i])

\* str(cell) as a text cell
StrCell(kind, c, float) ==
    IF IsNA(c) THEN <<"nan">>
    ELSE IF kind = "num" THEN <<NumStr(c[1], float)>>
    ELSE c

\* Series.astype(str), cell by cell
AsStr(kind, col) ==
    [i \in 1..Len(col) |-> StrCell(kind, col[i], IsFloatCol(col))]

\* the distinct present cells of a column, ascending
Distinct(kind, col) ==
    LET p    == Present(col)
        keep == [i \in 1..Len(p) |-> \A k \in 1..(i - 1) : p[k] # p[i]]
        ks   == SelectIdx(Len(p), keep, 1)
    IN  Sorted(kind, [k \in 1..Len(ks) |-> p[ks[k]]])

PosIn(s, v) == CHOOSE k \in 1..Len(s) : s[k] = v

\* LabelEncoder().fit(values): classes_ are the sorted distinct values
LabelFit(strs) == [classes |-> Distinct("text", strs)]

\* LabelEncoder.transform: the position of each value in classes_, from 0
LabelCodes(le, strs) == [i \in 1..Len(strs) |-> RInt(PosIn(le.classes, strs[i]) - 1)]

RECURSIVE LabelLoop(_, _, _)
\* for col in columns: if col in df_processed.columns: a fresh LabelEncoder
\* is fitted on the column as text and kept in self.encoders[col]
LabelLoop(b, names, en) ==
    IF names = <<>> THEN [b |-> b, en |-> en]
    ELSE LET j == ColPos(b.t, Head(names))
         IN  IF j = 0 THEN LabelLoop(b, Tail(names), en)
             ELSE LET strs == AsStr(b.t.kinds[j], Column(b.t, j))
                      le   == LabelFit(strs)
                  IN  LabelLoop(Mutate(b, SetColumn(b.t, j, "num", LabelCodes(le, strs))),
                                Tail(names), (Head(names) :> le) @@ en)

\* the name of an indicator column: prefix + "_" + str(value)
DummyName(prefix, v) == prefix \o <<"_">> \o v

\* _get_dummies_1d: one indicator column per distinct present value of the
\* column, ascending; a row whose cell is missing gets 0 in each of them
Dummies(t, j, prefix) ==
    LET col  == Column(t, j)
        vals == Distinct(t.kinds[j], col)
        strs == [k \in 1..Len(vals) |->
                    StrCell(t.kinds[j], vals[k], IsFloatCol(col))]
    IN  [cols  |-> [k \in 1..Len(vals) |-> DummyName(prefix, strs[k])],
         kinds |-> [k \in 1..Len(vals) |-> "bool"],
         idx   |-> t.idx,
         rows  |-> [i \in 1..NRows(t) |->
                     [k \in 1..Len(vals) |->
                        IF col[i] = vals[k] THEN RInt(1) ELSE RInt(0)]]]

\* concat([left, right], axis=1) of two frames over the same rows
ConcatCols(l, r) ==
    [cols  |-> l.cols \o r.cols,
     kinds |-> l.kinds \o r.kinds,
     idx   |-> l.idx,
     rows  |-> [i \in 1..NRows(l) |-> l.rows[i] \o r.rows[i]]]

RECURSIVE DummyLoop(_, _, _, _)
DummyLoop(t, names, k, acc) ==
    IF k > Len(names) THEN acc
    ELSE DummyLoop(t, names, k + 1,
                   ConcatCols(acc, Dummies(t, ColPos(t, names[k]), names[k])))

\* pd.get_dummies(df, columns=names, prefix=names), every name present: the
\* columns not encoded come first, then the indicators of each name in turn
get_dummies(t, names) ==
    LET rest == SelectIdx(NCols(t),
                    [j \in 1..NCols(t) |->
                        \A k \in 1..Len(names) : names[k] # t.cols[j]], 1)
    IN  DummyLoop(t, names, 1, TakeCols(t, rest))

encode_categorical(d, columns, method, sc, en) ==
    LET b0    == DfCopy(d)
        names == IF columns.given THEN columns.names
                 ELSE ColNames(b0.t, NonNumericCols(b0.t))
    IN  CASE method = "label" ->
               LET r == LabelLoop(b0, names, en)
               IN  Returned(r.b, sc, r.en)
          [] method = "onehot" ->
               IF ~AllPresent(b0.t, names)
               THEN Raised("KeyError", b0, sc, en)
               ELSE Returned(Rebind(b0, get_dummies(b0.t, names)), sc, en)
          [] OTHER -> Returned(b0, sc, en)

-----------------------------------------------------------------------------
(* DataProcessor.create_bins *)
(* bins is [int, k, edges]: a bin count k (int = TRUE) or explicit         *)
(* boundaries edges; labels is [given, names].                             *)

Strictly(edges) == \A k \in 1..(Len(edges) - 1) : RLess(edges[k], edges[k + 1])

\* the boundaries pd.cut derives from a bin count: k equal-width bins over
\* [min, max], the lowest boundary moved down by 0.1 % of the range (a
\* constant column is first widened by 0.1 % of its value on both sides)
CutEdges(col, k) ==
    LET mn0  == ColMin(col)
        mx0  == ColMax(col)
        flat == mn0 = mx0
        pad  == IF mn0 = RInt(0) THEN Rat(1, 1000)
                ELSE RMul(Rat(1, 1000), <<Abs(mn0[1]), mn0[2]>>)
        mn   == IF flat THEN RSub(mn0, pad) ELSE mn0
        mx   == IF flat THEN RAdd(mx0, pad) ELSE mx0
        adj  == IF flat THEN RInt(0) ELSE RMul(Rat(1, 1000), RSub(mx, mn))
        at(i) == RAdd(mn, RMul(Rat(i, k), RSub(mx, mn)))
    IN  [i \in 1..(k + 1) |-> IF i = 1 THEN RSub(at(0), adj) ELSE at(i - 1)]

\* the bin of x among the right-closed intervals (e[k], e[k+1]], the first
\* closed on the left as well (include_lowest=True); 0 when outside
BinOf(edges, x) ==
    IF \E k \in 1..(Len(edges) - 1) :
            /\ RLeq(x, edges[k + 1])
            /\ (RLess(edges[k], x) \/ (k = 1 /\ x = edges[1]))
    THEN CHOOSE k \in 1..(Len(edges) - 1) :
            /\ RLeq(x, edges[k + 1])
            /\ (RLess(edges[k], x) \/ (k = 1 /\ x = edges[1]))
    ELSE 0

\* why pd.cut raises on this column, "ok" when it does not
CutError(t, j, bins, labels) ==
    LET col == Column(t, j)
        nb  == IF bins.int THEN bins.k ELSE Len(bins.edges) - 1
    IN  CASE t.kinds[j] # "num" /\ Present(col) # <<>> -> "TypeError"
          [] bins.int /\ (bins.k < 1 \/ Present(col) = <<>>) -> "ValueError"
          [] ~bins.int /\ ~Strictly(bins.edges) -> "ValueError"
          [] labels.given /\ Len(labels.names) # nb -> "ValueError"
          [] OTHER -> "ok"

\* pd.cut(df[column], bins, labels, include_lowest=True): the bin of each
\* cell, <<"bin", k>> or its label; missing for a missing or outside cell
cut(t, j, bins, labels) ==
    LET col   == Column(t, j)
        edges == IF bins.int THEN CutEdges(col, bins.k) ELSE bins.edges
    IN  [i \in 1..NRows(t) |->
            IF IsNA(col[i]) \/ Len(edges) < 2 \/ BinOf(edges, col[i]) = 0 THEN NA
            ELSE IF labels.given THEN labels.names[BinOf(edges, col[i])]
            ELSE <<"bin", BinOf(edges, col[i])>>]

\* df[name] = values: the column is replaced when it exists, else appended
AssignColumn(t, name, kind, col) ==
    IF HasCol(t, name) THEN SetColumn(t, ColPos(t, name), kind, col)
    ELSE [t EXCEPT !.cols  = Append(@, name),
                   !.kinds = Append(@, kind),
                   !.rows  = [i \in 1..NRows(t) |-> Append(t.rows[i], col[i])]]

BinnedName(column) == column \o <<"_binned">>

create_bins(d, column, bins, labels, sc, en) ==
    LET b0 == DfCopy(d)
        j  == ColPos(b0.t, column)
    IN  IF j = 0 THEN Returned(b0, sc, en)
        ELSE IF CutError(b0.t, j, bins, labels) # "ok"
        THEN Raised(CutError(b0.t, j, bins, labels), b0, sc, en)
        ELSE Returned(Mutate(b0, AssignColumn(b0.t, BinnedName(column), "cat",
                                              cut(b0.t, j, bins, labels))),
                      sc, en)

-----------------------------------------------------------------------------
(* DataProcessor.detect_data_quality_issues *)

\* Series.nunique(): the number of distinct present values
nunique(col) == Cardinality(Range(Present(col)))

\* Series.equals: the same dtype and, row by row, the same cell, two
\* missing cells in the same row counting as the same
equals(t, p, q) ==
    /\ t.kinds[p] = t.kinds[q]
    /\ Column(t, p) = Column(t, q)

\* the names of the columns at the positions js
NamesAt(t, js) == [k \in 1..Len(js) |-> t.cols[js[k]]]

\* missing_rates > 0.5, with missing_rates = df.isnull().sum() / len(df);
\* on a table with no row the rate is 0/0, which is not above 0.5
high_missing_columns(t) ==
    NamesAt(t, SelectIdx(NCols(t),
        [j \in 1..NCols(t) |->
            NRows(t) > 0 /\ 2 * (NRows(t) - Len(Present(Column(t, j)))) > NRows(t)], 1))

\* the object columns with nunique() / len(df) > 0.8
high_cardinality_columns(t) ==
    NamesAt(t, SelectIdx(NCols(t),
        [j \in 1..NCols(t) |->
            t.kinds[j] = "text" /\ 5 * nunique(Column(t, j)) > 4 * NRows(t)], 1))

\* the columns with nunique() <= 1
constant_columns(t) ==
    NamesAt(t, SelectIdx(NCols(t),
        [j \in 1..NCols(t) |-> nunique(Column(t, j)) <= 1], 1))

\* (variant) col2 ranges over every other column, not only the later ones
duplicate_columns_both_orders(t) ==
    LET n    == NCols(t)
        P(k) == (k - 1) \div n + 1
        Q(k) == ((k - 1) % n) + 1
        ks   == SelectIdx(n * n,
                    [k \in 1..(n * n) |->
                        /\ P(k) # Q(k)
                        /\ t.kinds[P(k)] = t.kinds[Q(k)]
                        /\ Column(t, P(k)) = Column(t, Q(k))], 1)
    IN  [m \in 1..Len(ks) |-> <<t.cols[P(ks[m])], t.cols[Q(ks[m])]>>]

\* for i, col1 in enumerate(df.columns): for col2 in df.columns[i+1:]:
\* the pairs (col1, col2) with df[col1].equals(df[col2]), in loop order
duplicate_columns(t) ==
    LET n    == NCols(t)
        P(k) == (k - 1) \div n + 1
        Q(k) == ((k - 1) % n) + 1
        ks   == SelectIdx(n * n,
                    [k \in 1..(n * n) |-> P(k) < Q(k) /\ equals(t, P(k), Q(k))], 1)
    IN  [m \in 1..Len(ks) |-> <<t.cols[P(ks[m])], t.cols[Q(ks[m])]>>]

\* a call that returned the report r, the table of binding b left alone
Reported(r, b, sc, en) ==
    [outcome |-> "ok", out |-> r, outIsIn |-> FALSE, inp |-> b.inp,
     scalers |-> sc, encoders |-> en]

\* nunique() / len(df) of an object column divides two Python ints, which
\* raises ZeroDivisionError on a table with no row
detect_data_quality_issues(d, sc, en) ==
    LET b0 == Input(d)
    IN  IF NRows(d) = 0 /\ \E j \in 1..NCols(d) : d.kinds[j] = "text"
        THEN Raised("ZeroDivisionError", b0, sc, en)
        ELSE Reported([high_missing_columns     |-> high_missing_columns(d),
                       high_cardinality_columns |-> high_cardinality_columns(d),
                       potential_outliers       |-> <<>>,
                       constant_columns         |-> constant_columns(d),
                       duplicate_columns        |-> duplicate_columns(d)],
                      b0, sc, en)

-----------------------------------------------------------------------------
(* DataLoader.validate_data and DataLoader.sample_data *)

\* (variant) duplicated(keep=False): every occurrence of a repeated row counts
duplicated_sum_keep_false(t) ==
    Cardinality({i \in 1..NRows(t) :
        \E k \in (1..NRows(t)) \ {i} : t.rows[k] = t.rows[i]})

\* df.duplicated().sum(): the rows that repeat an earlier row
duplicated_sum(t) ==
    Cardinality({i \in 1..NRows(t) : Duplicated(t, AllCols(t), i)})

\* the names of the columns of the given dtype family
ColumnsOfKind(t, kind) ==
    LET js == SelectIdx(NCols(t), [j \in 1..NCols(t) |-> t.kinds[j] = kind], 1)
    IN  [k \in 1..Len(js) |-> t.cols[js[k]]]

\* memory_usage_mb is round(bytes / 1024 / 1024, 2), which is 0.0 for every
\* table of a few cells
validate_data(d, sc, en) ==
    Reported([total_rows       |-> NRows(d),
              total_columns    |-> NCols(d),
              missing_values   |-> MissingCount(d),
              duplicate_rows   |-> duplicated_sum(d),
              numeric_columns  |-> ColumnsOfKind(d, "num"),
              text_columns     |-> ColumnsOfKind(d, "text"),
              datetime_columns |-> ColumnsOfKind(d, "datetime"),
              memory_usage_mb  |-> RInt(0)],
             Input(d), sc, en)

\* (variant) sampling with replacement: the same position is drawn each time
draw_with_replacement(m, seed) == [k \in 1..m |-> (seed % m) + 1]

\* the order in which RandomState(random_state) draws the positions of a
\* table of m rows: a permutation of 1..m that m and the seed determine
\* (a rotation stands for numpy's shuffle)
Permutation(m, seed) == [k \in 1..m |-> ((seed + k - 1) % m) + 1]

\* DataFrame.sample(n, random_state): the first n positions drawn, labels kept
sample(t, n, seed) ==
    LET ps == Permutation(NRows(t), seed)
    IN  TakeRows(t, [k \in 1..n |-> ps[k]])

sample_data(d, sample_size, random_state, sc, en) ==
    LET b0 == Input(d)
    IN  IF NRows(d) <= sample_size
        THEN Returned(b0, sc, en)
        ELSE LET b1 == Rebind(b0, sample(b0.t, sample_size, random_state))
             IN  Returned(Rebind(b1, reset_index(b1.t)), sc, en)

-----------------------------------------------------------------------------
(* The inputs of the DataProcessor specification *)

A  == <<"a">>      \* a numeric column
T  == <<"t">>      \* a text column
ZZ == <<"zz">>     \* a name no table has

NumCells  == {NA, RInt(1), RInt(2)}
TextCells == {NA, <<"x">>, <<"y">>}

\* the row labels of an input table: 0..n-1, or the labels an earlier
\* filter left behind
Labels(n, gapped) == [i \in 1..n |-> IF gapped THEN 2 * i + 1 ELSE i - 1]

MakeTable(rows, gapped) ==
    [cols |-> <<A, T>>, kinds |-> <<"num", "text">>,
     idx |-> Labels(Len(rows), gapped), rows |-> rows]

\* every table of at most MaxRows rows over the two columns
SmallTables ==
    {MakeTable(rows, FALSE) :
        rows \in UNION {[1..n -> NumCells \X TextCells] : n \in 0..MaxRows}}

\* the column [1, 2, None, 4] of the missing-value example, beside a text
\* column with a most frequent value and a missing cell, with either kind
\* of row labels
ExampleTables ==
    {MakeTable(<< <<RInt(1), <<"x">> >>, <<RInt(2), <<"x">> >>,
                  <<NA, <<"y">> >>, <<RInt(4), NA>> >>, g) : g \in BOOLEAN}

B == <<"b">>      \* a second numeric column
C == <<"c">>      \* a third numeric column

\* a table of numeric columns only, given column by column
NumericTable(names, columns) ==
    [cols  |-> names,
     kinds |-> [j \in 1..Len(names) |-> "num"],
     idx   |-> Labels(Len(columns[1]), FALSE),
     rows  |-> [i \in 1..Len(columns[1]) |->
                 [j \in 1..Len(names) |-> columns[j][i]]]]

Ints(s) == [i \in 1..Len(s) |-> RInt(s[i])]

\* the column [1, 2, 3, 4, 100] of the outlier example beside a second
\* numeric column
OutlierTables ==
    {NumericTable(<<A, B>>, <<Ints(<<1, 2, 3, 4, 100>>), Ints(<<1, 1, 1, 3, 9>>)>>)}

\* tables in which some columns repeat others, cell by cell
DuplicateColumnTables ==
    {NumericTable(<<A, B, C>>, <<<<RInt(1), NA>>, b, <<RInt(1), NA>>>>) :
        b \in {<<RInt(1), NA>>, <<RInt(1), RInt(2)>>}}

\* a text column that holds the text "nan" next to a missing cell, and a
\* table that already has a column named after the binned column of a
TextTables ==
    {MakeTable(<< <<RInt(1), <<"nan">> >>, <<RInt(2), NA>>,
                  <<RInt(1), <<"x">> >>, <<RInt(1), <<"x">> >> >>, FALSE),
     [MakeTable(<< <<RInt(1), <<"x">> >>, <<RInt(2), <<"y">> >> >>, FALSE)
        EXCEPT !.cols = <<A, BinnedName(A)>>]}

InputTables ==
    SmallTables \cup ExampleTables \cup OutlierTables
        \cup DuplicateColumnTables \cup TextTables

None == [given |-> FALSE, names |-> <<>>]
List(names) == [given |-> TRUE, names |-> names]

NoBins   == [int |-> TRUE, k |-> 0, edges |-> <<>>]
IntBins(k) == [int |-> TRUE, k |-> k, edges |-> <<>>]
Edges(e) == [int |-> FALSE, k |-> 0, edges |-> e]

Args(method, columns, bins, labels) ==
    [method |-> method, columns |-> columns, bins |-> bins, labels |-> labels]

NoRet ==
    [outcome |-> "none", out |-> NoTable, outIsIn |-> FALSE, inp |-> NoTable,
     scalers |-> {}, encoders |-> <<>>]

NoCall ==
    [op |-> "none", args |-> Args("", None, NoBins, None), before |-> NoTable,
     scBefore |-> {}, enBefore |-> <<>>, ret |-> NoRet]

NoSource ==
    [kind |-> "none", lines |-> <<>>, pos |-> 0, enc |-> "ascii", sheets |-> <<>>]

NoSheet == [byName |-> FALSE, name |-> "", index |-> 0]

NoLoad ==
    [op |-> "none", encoding |-> "", sheet |-> NoSheet, src |-> NoSource,
     outcome |-> "none", cause |-> "", raw |-> NoTable, table |-> NoTable,
     sep |-> ""]

\* Python values given where an engine, a name, a clause or a number is
\* expected: None, a str, an int, or the engine number n made for the URL text
NoneV == [type |-> "none", text |-> <<>>, n |-> 0]
Str(text) == [type |-> "str", text |-> text, n |-> 0]
IntV(n) == [type |-> "int", text |-> <<>>, n |-> n]
Engine(url, n) == [type |-> "engine", text |-> url, n |-> n]

NoReply ==
    [op |-> "none", args |-> <<>>, held |-> NoneV, before |-> <<>>,
     outcome |-> "none", value |-> NoneV, statements |-> <<>>]

NoConn == [engine |-> NoneV, made |-> 0, known |-> NoneV, db |-> <<>>,
           reply |-> NoReply]

\* an optional table: None, or the table t
NoneT == [some |-> FALSE, t |-> NoTable]
Some(t) == [some |-> TRUE, t |-> t]

\* the run of a page: what was pressed, how it ended, the table the page
\* consumed and the load it stems from, the session tables before the run,
\* the export options and the CSV text produced, the connector calls made
NoRun ==
    [page |-> "none", pressed |-> "", outcome |-> "none", consumed |-> NoneT,
     gen |-> 0, before |-> NoneT, options |-> <<>>, csv |-> <<>>,
     calls |-> <<>>, load_button |-> FALSE]

\* st.session_state: data and processed_data; loads counts the loads that
\* succeeded, origin and derived are the raw table processed_data was
\* computed from and the number of its load
NoSession ==
    [data |-> NoneT, processed_data |-> NoneT, loads |-> 0,
     origin |-> NoTable, derived |-> 0, run |-> NoRun]

MissingMethods == {M_DROP, M_MEAN, M_MEDIAN, M_MODE, "bogus"}
SubsetChoices  == {None, List(<<A>>), List(<<T>>), List(<<A, ZZ>>)}
OutlierColumns == {None, List(<<A>>), List(<<A, ZZ>>), List(<<T>>)}
OutlierMethods == {"iqr", "zscore", "bogus"}
ScaleColumns   == {None, List(<<A>>), List(<<A, T>>), List(<<ZZ, A>>)}
ScaleMethods   == {"standard", "minmax", "bogus"}
EncodeColumns  == {None, List(<<T>>), List(<<T, ZZ>>), List(<<A, T>>)}
EncodeMethods  == {"label", "onehot", "bogus"}
BinColumns     == {A, T, ZZ}
BinChoices     == {IntBins(2), Edges(<<RInt(1), RInt(2)>>)}
LabelChoices   == {None, List(<< <<"lo">> >>)}
SampleSizes    == {0, 2, 3}
Seeds          == {42, 7}

SampleArgs(sample_size, random_state) ==
    [method |-> "", columns |-> None, bins |-> NoBins, labels |-> None,
     sample_size |-> sample_size, random_state |-> random_state]

-----------------------------------------------------------------------------
(* The DataProcessor specification: one caller holding one table calls the *)
(* methods of one DataProcessor, and the table methods of the DataLoader,  *)
(* one call at a time.                                                     *)

ProcInit ==
    /\ df \in InputTables
    /\ scalers = {}
    /\ encoders = <<>>
    /\ last = NoCall
    /\ source = NoSource
    /\ loaded = NoLoad
    /\ conn = NoConn
    /\ session = NoSession

\* the call op(df, args) ran to its end (return or raise) with result r
Call(op, args, r) ==
    /\ last.op = "none"
    /\ last' = [op |-> op, args |-> args, before |-> df,
                scBefore |-> scalers, enBefore |-> encoders, ret |-> r]
    /\ df' = r.inp
    /\ scalers' = r.scalers
    /\ encoders' = r.encoders
    /\ UNCHANGED loadVars
    /\ UNCHANGED appVars

HandleMissingValues ==
    \E m \in MissingMethods :
        Call("handle_missing_values", Args(m, None, NoBins, None),
             handle_missing_values(df, m, scalers, encoders))

RemoveDuplicates ==
    \E s \in SubsetChoices :
        Call("remove_duplicates", Args("", s, NoBins, None),
             remove_duplicates(df, s, scalers, encoders))

RemoveOutliers ==
    \E c \in OutlierColumns, m \in OutlierMethods :
        Call("remove_outliers", Args(m, c, NoBins, None),
             remove_outliers(df, c, m, scalers, encoders))

NormalizeData ==
    \E c \in ScaleColumns, m \in ScaleMethods :
        Call("normalize_data", Args(m, c, NoBins, None),
             normalize_data(df, c, m, scalers, encoders))

EncodeCategorical ==
    \E c \in EncodeColumns, m \in EncodeMethods :
        Call("encode_categorical", Args(m, c, NoBins, None),
             encode_categorical(df, c, m, scalers, encoders))

CreateBins ==
    \E c \in BinColumns, b \in BinChoices, l \in LabelChoices :
        Call("create_bins", Args("", List(<<c>>), b, l),
             create_bins(df, c, b, l, scalers, encoders))

DetectDataQualityIssues ==
    Call("detect_data_quality_issues", Args("", None, NoBins, None),
         detect_data_quality_issues(df, scalers, encoders))

ValidateData ==
    Call("validate_data", Args("", None, NoBins, None),
         validate_data(df, scalers, encoders))

SampleData ==
    \E n \in SampleSizes, seed \in Seeds :
        Call("sample_data", SampleArgs(n, seed),
             sample_data(df, n, seed, scalers, encoders))

\* the caller is done with what the call returned
Discard ==
    /\ last.op # "none"
    /\ last' = NoCall
    /\ UNCHANGED <<df, scalers, encoders>>
    /\ UNCHANGED loadVars
    /\ UNCHANGED appVars

ProcNext ==
    \/ HandleMissingValues
    \/ RemoveDuplicates
    \/ RemoveOutliers
    \/ NormalizeData
    \/ EncodeCategorical
    \/ CreateBins
    \/ DetectDataQualityIssues
    \/ ValidateData
    \/ SampleData
    \/ Discard

Spec == ProcInit /\ [][ProcNext]_vars

-----------------------------------------------------------------------------
(* DataLoader: delimited text                                              *)
(* A source is [kind, lines, pos, enc, sheets].  kind "path" is a file     *)
(* path, opened anew by every read; kind "stream" is an in-memory byte     *)
(* stream (io.BytesIO, the uploaded file of app.py:111-132), read from its *)
(* position pos (in lines), which a read leaves at the end.  lines is the  *)
(* text, each line a sequence of characters; enc is how its bytes are      *)
(* encoded.  kind "workbook" is a spreadsheet file with sheets.            *)

COMMA == ","
SEMI  == ";"
TAB   == "\t"
PIPE  == "|"

\* separators = [',', ';', '\t', '|']  (data_loader.py:52)
separators == <<COMMA, SEMI, TAB, PIPE>>

RECURSIVE Split(_, _)
\* line.split(sep): the fields of a line, each a sequence of characters
Split(line, sep) ==
    IF line = <<>> THEN << <<>> >>
    ELSE LET rest == Split(Tail(line), sep)
         IN  IF Head(line) = sep THEN << <<>> >> \o rest
             ELSE << <<Head(line)>> \o Head(rest) >> \o Tail(rest)

\* the lines a read sees: all of a file, the unread rest of a stream
Unread(src) ==
    IF src.kind = "stream" THEN SubSeq(src.lines, src.pos + 1, Len(src.lines))
    ELSE src.lines

\* the position a read leaves behind
AfterRead(src) == IF src.kind = "stream" THEN Len(src.lines) ELSE src.pos

\* the bytes decode under the requested encoding: ASCII text decodes under
\* every encoding, GBK-encoded text does not decode as UTF-8
Decodes(src, encoding) == src.enc = "ascii" \/ src.enc = encoding

\* the parser skips blank lines (skip_blank_lines=True)
NonBlank(lines) ==
    LET ks == SelectIdx(Len(lines), [i \in 1..Len(lines) |-> lines[i] # <<>>], 1)
    IN  [k \in 1..Len(ks) |-> lines[ks[k]]]

\* the field "" that to_csv writes for a missing cell that is alone on its
\* line
QUOTES == "\"\""

\* a field as a cell: an empty field, bare or quoted, is missing
FieldCell(f) == IF f = <<>> \/ f = <<QUOTES>> THEN NA ELSE <<f>>

\* the frame the parser builds from the fields of each line: the first line
\* names the columns, a shorter line is padded with missing cells, a column
\* with no present cell is float64 and every other column is text
Frame(fields) ==
    LET header == fields[1]
        n      == Len(fields) - 1
        w      == Len(header)
        cell(i, j) == IF j <= Len(fields[i + 1]) THEN FieldCell(fields[i + 1][j])
                      ELSE NA
    IN  [cols  |-> header,
         kinds |-> [j \in 1..w |->
                      IF n > 0 /\ \A i \in 1..n : IsNA(cell(i, j))
                      THEN "num" ELSE "text"],
         idx   |-> [i \in 1..n |-> i - 1],
         rows  |-> [i \in 1..n |-> [j \in 1..w |-> cell(i, j)]]]

\* pd.read_csv(file_path, encoding=encoding, sep=sep): the frame, or the
\* exception class it raises
read_csv(src, encoding, sep) ==
    LET text   == NonBlank(Unread(src))
        fields == [i \in 1..Len(text) |-> Split(text[i], sep)]
    IN  CASE Unread(src) # <<>> /\ ~Decodes(src, encoding) ->
               [res |-> "UnicodeDecodeError", df |-> NoTable]
          [] text = <<>> ->
               [res |-> "EmptyDataError", df |-> NoTable]
          [] \E i \in 2..Len(text) : Len(fields[i]) > Len(fields[1]) ->
               [res |-> "ParserError", df |-> NoTable]
          [] OTHER ->
               [res |-> "ok", df |-> Frame(fields)]

\* df.dropna(how='all').dropna(axis=1, how='all').reset_index(drop=True)
\* (data_loader.py:29-32 and 68-71)
CleanLoaded(t) == reset_index(dropna_cols_all(dropna_rows_all(t)))

RECURSIVE ProbeLoop(_, _, _, _)
\* for sep in separators: try: df = read_csv(...); if len(df.columns) > 1:
\* break; except: continue.  broke: the loop ended by break; df: the last
\* frame assigned; src: the source as the reads left it
ProbeLoop(src, encoding, k, df0) ==
    IF k > Len(separators)
    THEN [broke |-> FALSE, df |-> df0, src |-> src, sep |-> ""]
    ELSE LET r    == read_csv(src, encoding, separators[k])
             src1 == [src EXCEPT !.pos = AfterRead(src)]
         IN  IF r.res = "ok" /\ NCols(r.df) > 1
             THEN [broke |-> TRUE, df |-> r.df, src |-> src1, sep |-> separators[k]]
             ELSE ProbeLoop(src1, encoding, k + 1,
                            IF r.res = "ok" THEN r.df ELSE df0)

\* a finished load: [outcome, cause, raw, table, src, sep]; raw is the frame
\* as parsed, table what is returned, src the source as the reads left it
LoadOk(df0, src, sep) ==
    [outcome |-> "ok", cause |-> "", raw |-> df0, table |-> CleanLoaded(df0),
     src |-> src, sep |-> sep]

\* raise Exception(f"...加载失败: {str(e)}")
LoadFailed(cause, src) ==
    [outcome |-> "Exception", cause |-> cause, raw |-> NoTable,
     table |-> NoTable, src |-> src, sep |-> ""]

\* the else branch of the loop: df = pd.read_csv(file_path, encoding=encoding)
DefaultRead(src, encoding, r) ==
    IF r.res = "ok"
    THEN LoadOk(r.df, [src EXCEPT !.pos = AfterRead(src)], "default")
    ELSE LoadFailed(r.res, [src EXCEPT !.pos = AfterRead(src)])

\* what follows the loop that ended as p
LoadCsvAfter(p, encoding) ==
    IF p.broke THEN LoadOk(p.df, p.src, p.sep)
    ELSE DefaultRead(p.src, encoding, read_csv(p.src, encoding, COMMA))

\* DataLoader.load_csv(file_path, encoding): [outcome, cause, raw, table,
\* src, sep]; raw is the frame as parsed, table what is returned, sep the
\* candidate whose parse was kept ("default": the read after the loop)
load_csv(src, encoding) == LoadCsvAfter(ProbeLoop(src, encoding, 1, NoTable), encoding)

-----------------------------------------------------------------------------
(* DataLoader: spreadsheets                                                *)
(* A sheet is [name, grid]; grid is the rows of the sheet, each a sequence *)
(* of cells, the first row holding the column names.                       *)

\* the position of the sheet sheet_name selects (a name, or a 0-based
\* index); 0 when the workbook has no such sheet
SheetPos(sheets, sel) ==
    IF sel.byName
    THEN (IF \E k \in 1..Len(sheets) : sheets[k].name = sel.name
          THEN CHOOSE k \in 1..Len(sheets) : sheets[k].name = sel.name
          ELSE 0)
    ELSE (IF sel.index < Len(sheets) THEN sel.index + 1 ELSE 0)

\* the frame of one sheet: no column for an empty sheet, else the first row
\* names the columns
SheetFrame(grid) ==
    IF grid = <<>> THEN NoTable
    ELSE LET n == Len(grid) - 1
             w == Len(grid[1])
         IN  [cols  |-> grid[1],
              kinds |-> [j \in 1..w |->
                           IF n > 0 /\ \A i \in 1..n : IsNA(grid[i + 1][j])
                           THEN "num" ELSE "text"],
              idx   |-> [i \in 1..n |-> i - 1],
              rows  |-> [i \in 1..n |-> grid[i + 1]]]

\* pd.read_excel(file_path, sheet_name=sheet_name)
read_excel(src, sel) ==
    LET k == SheetPos(src.sheets, sel)
    IN  IF k = 0
        THEN [res |-> IF sel.byName THEN "ValueError" ELSE "IndexError",
              df |-> NoTable]
        ELSE [res |-> "ok", df |-> SheetFrame(src.sheets[k].grid)]

\* what follows pd.read_excel ending as r
LoadExcelAfter(src, r) ==
    IF r.res = "ok" THEN LoadOk(r.df, src, "") ELSE LoadFailed(r.res, src)

\* DataLoader.load_excel(file_path, sheet_name)
load_excel(src, sel) == LoadExcelAfter(src, read_excel(src, sel))

-----------------------------------------------------------------------------
(* The inputs of the DataLoader specification *)

\* data lines of the exhaustively enumerated files, data rows of the sheets
MaxLines == 2

RECURSIVE Join(_, _)
\* sep.join(cells)
Join(cells, sep) ==
    IF Len(cells) = 1 THEN cells[1]
    ELSE cells[1] \o <<sep>> \o Join(Tail(cells), sep)

\* the column names of a file of n columns; the first may hold a comma
HeaderCells(n, comma) ==
    LET first == IF comma THEN <<"h", COMMA, "g">> ELSE <<"h">>
    IN  IF n = 1 THEN <<first>> ELSE <<first, <<"k">> >>

\* the fields of the data lines: empty, plain, or holding a comma
DataFields == {<<>>, <<"v">>, <<"v", COMMA, "w">>}

FileLines(sep, n, comma, rows) ==
    <<Join(HeaderCells(n, comma), sep)>>
        \o [i \in 1..Len(rows) |-> Join(rows[i], sep)]

\* under no candidate does the first data line hold more fields than the
\* header line (pandas would take the extra leading fields as row labels,
\* which the model does not cover)
NoImplicitIndex(lines) ==
    \A k \in 1..Len(separators) :
        LET text == NonBlank(lines)
        IN  Len(text) >= 2 =>
                Len(Split(text[2], separators[k])) <= Len(Split(text[1], separators[k]))

FilesOf(sep, n, comma) ==
    {FileLines(sep, n, comma, rows) :
        rows \in UNION {[1..m -> [1..n -> DataFields]] : m \in 0..MaxLines}}

\* the empty file, and every file of one or two columns and at most
\* MaxLines data lines written with one of the separators
FileContents ==
    {<<>>} \cup
    {L \in UNION {FilesOf(sep, n, comma) :
                    sep \in Range(separators), n \in 1..2, comma \in BOOLEAN} :
        NoImplicitIndex(L)}

\* a file on disk or an uploaded byte stream not yet read, ASCII or GBK
CsvSources ==
    {[kind |-> k, lines |-> L, pos |-> 0, enc |-> e, sheets |-> <<>>] :
        k \in {"path", "stream"}, L \in FileContents, e \in {"ascii", "gbk"}}

\* encoding = st.selectbox("选择编码", ...)  (app.py:131)
Encodings == {"utf-8", "gbk"}

SheetHeader == << <<"h">>, <<"k">> >>

SheetGrids ==
    {<<>>} \cup
    {<<SheetHeader>> \o rows :
        rows \in UNION {[1..m -> [1..2 -> {NA, <<"v">>}]] : m \in 0..MaxLines}}

SecondSheet == [name |-> "S2", grid |-> <<SheetHeader, << <<"v">>, NA >> >>]

\* workbooks of one sheet, and of two
Workbooks ==
    {[kind |-> "workbook", lines |-> <<>>, pos |-> 0, enc |-> "ascii",
      sheets |-> IF two THEN <<[name |-> "S1", grid |-> g], SecondSheet>>
                 ELSE <<[name |-> "S1", grid |-> g]>>] :
        g \in SheetGrids, two \in BOOLEAN}

ByIndex(i) == [byName |-> FALSE, name |-> "", index |-> i]
ByName(n)  == [byName |-> TRUE, name |-> n, index |-> 0]

SheetChoices == {ByIndex(0), ByIndex(1), ByName("S2"), ByName("nope")}

-----------------------------------------------------------------------------
(* The DataLoader specification: one source is loaded, possibly again      *)

LoadInit ==
    /\ source \in CsvSources \cup Workbooks
    /\ loaded = NoLoad
    /\ df = NoTable
    /\ scalers = {}
    /\ encoders = <<>>
    /\ last = NoCall
    /\ conn = NoConn
    /\ session = NoSession

\* the record of a DataLoader call on src that ended as r
LoadRecord(op, encoding, sel, src, r) ==
    [op |-> op, encoding |-> encoding, sheet |-> sel, src |-> src,
     outcome |-> r.outcome, cause |-> r.cause, raw |-> r.raw,
     table |-> r.table, sep |-> r.sep]

\* the call ended as r: the caller has the result, the source is as the
\* reads left it
Loaded(op, encoding, sel, r) ==
    /\ loaded' = LoadRecord(op, encoding, sel, source, r)
    /\ source' = r.src
    /\ UNCHANGED procVars
    /\ UNCHANGED appVars

LoadCsv ==
    /\ source.kind \in {"path", "stream"}
    /\ \E encoding \in Encodings :
        Loaded("load_csv", encoding, NoSheet, load_csv(source, encoding))

LoadExcel ==
    /\ source.kind = "workbook"
    /\ \E sel \in SheetChoices :
        Loaded("load_excel", "", sel, load_excel(source, sel))

LoadNext ==
    \/ LoadCsv
    \/ LoadExcel

LoaderSpec == LoadInit /\ [][LoadNext]_vars

-----------------------------------------------------------------------------
(* DatabaseConnector (src/utils/database_connector.py)                     *)
(*                                                                         *)
(* The connector record c is [engine, made, known, db, reply]: the engine  *)
(* the connector holds (self.engine), the number of engines made so far,   *)
(* the engine the caller last got from connect, the tables of the database *)
(* and the last call.  A statement is [verb, name, arg, limit], the texts  *)
(* the code formats into the SQL string; a method answers with its         *)
(* outcome, its value, the statements that reached the database, and the   *)
(* held engine, engine count and database it leaves.                       *)

\* engines made by one connector
MaxEngines == 2

ORDERS  == <<"orders">>
BACKUP  == <<"backup">>
A_GT_1  == <<"a > 1">>

Stmt(verb, name, arg, limit) ==
    [verb |-> verb, name |-> name, arg |-> arg, limit |-> limit]

Answer(outcome, value, statements, engine, made, db) ==
    [outcome |-> outcome, value |-> value, statements |-> statements,
     engine |-> engine, made |-> made, db |-> db]

\* bool(v) of a Python value
Truthy(v) ==
    CASE v.type = "none"   -> FALSE
      [] v.type = "str"    -> v.text # <<"">>
      [] v.type = "int"    -> v.n # 0
      [] v.type = "engine" -> TRUE

\* f"{v}" of a Python value
Format(v) ==
    CASE v.type = "none"   -> <<"None">>
      [] v.type = "str"    -> v.text
      [] v.type = "int"    -> <<NumStr(v.n, FALSE)>>
      [] v.type = "engine" -> <<"Engine(">> \o v.text \o <<")">>

\* db_type.lower()
Lower(db_type) ==
    CASE db_type = "MySQL"      -> "mysql"
      [] db_type = "PostgreSQL" -> "postgresql"
      [] db_type = "SQLite"     -> "sqlite"
      [] OTHER                  -> db_type

\* the connection string: the driver prefix and the database (host, port,
\* user and password left out)
ConnectionString(kind, database) ==
    <<CASE kind = "mysql"      -> "mysql+pymysql://"
        [] kind = "postgresql" -> "postgresql+psycopg2://"
        [] kind = "sqlite"     -> "sqlite:///",
      database>>

\* engine.connect() succeeds: con is an engine and its database is up
\* (a str given as con is no URL and cannot be connected)
Reachable(con) == con.type = "engine" /\ con.text[2] # "down"

Exists(db, name) == name \in DOMAIN db /\ db[name] # NoTable

\* the text of a LIMIT clause read back as a number
LimitOf(text) == CHOOSE n \in 0..4 : <<NumStr(n, FALSE)>> = text

\* the rows a SELECT * FROM name [WHERE arg] [LIMIT limit] yields: the
\* rows that satisfy the condition, then the first limit of them
SelectRows(t, q) ==
    LET keep == [i \in 1..NRows(t) |->
                    \/ q.arg = <<>>
                    \/ ~IsNA(t.rows[i][1]) /\ RLess(RInt(1), t.rows[i][1])]
        ks   == SelectIdx(NRows(t), keep, 1)
        n    == IF q.limit = <<>> \/ LimitOf(q.limit) > Len(ks)
                THEN Len(ks) ELSE LimitOf(q.limit)
    IN  reset_index(TakeRows(t, SubSeq(ks, 1, n)))

\* pd.read_sql(query, con): the frame of the rows, or no frame when the
\* connection, the table name or the condition is not accepted
read_sql(db, q, con) ==
    IF Reachable(con) /\ q.verb = "SELECT * FROM" /\ Exists(db, q.name)
        /\ q.arg \in {<<>>, A_GT_1}
    THEN [ok |-> TRUE, table |-> SelectRows(db[q.name], q)]
    ELSE [ok |-> FALSE, table |-> NoTable]

\* inspector.get_table_names()
TableNames(db) == SelectSeq(<<BACKUP, ORDERS>>, LAMBDA name : Exists(db, name))

connect(c, db_type, database) ==
    IF Lower(db_type) \notin {"mysql", "postgresql", "sqlite"}
    THEN Answer("Exception", NoneV, <<>>, c.engine, c.made, c.db)
    ELSE LET engine == Engine(ConnectionString(Lower(db_type), database),
                              c.made + 1)
         IN  IF Reachable(engine)
             THEN Answer("ok", engine, <<Stmt("SELECT 1", <<>>, <<>>, <<>>)>>,
                         engine, c.made + 1, c.db)
             ELSE Answer("Exception", NoneV, <<>>, engine, c.made + 1, c.db)

\* `if engine is None: engine = self.engine`
Chosen(c, engine) == IF engine.type = "none" THEN c.engine ELSE engine

\* `if engine is None: raise ValueError("请先连接数据库")`
ConnectFirst(c) == Answer("ValueError", NoneV, <<>>, c.engine, c.made, c.db)

\* the body raised, and the method raises Exception in its place
Failed(c, statements) ==
    Answer("Exception", NoneV, statements, c.engine, c.made, c.db)

Done(c, value, statements, db) ==
    Answer("ok", value, statements, c.engine, c.made, db)

get_tables(c, engine) ==
    IF Chosen(c, engine).type = "none" THEN ConnectFirst(c)
    ELSE IF ~Reachable(Chosen(c, engine)) THEN Failed(c, <<>>)
    ELSE Done(c, TableNames(c.db), <<Stmt("table names", <<>>, <<>>, <<>>)>>,
              c.db)

get_table_info(c, table_name, engine) ==
    IF Chosen(c, engine).type = "none" THEN ConnectFirst(c)
    ELSE IF ~Reachable(Chosen(c, engine)) THEN Failed(c, <<>>)
    ELSE IF ~Exists(c.db, Format(table_name))
    THEN Failed(c, <<Stmt("columns", Format(table_name), <<>>, <<>>)>>)
    ELSE Done(c, [columns      |-> c.db[Format(table_name)].cols,
                  primary_keys |-> <<>>,
                  foreign_keys |-> <<>>,
                  indexes      |-> <<>>],
              [k \in 1..4 |->
                  Stmt(<<"columns", "pk constraint", "foreign keys",
                         "indexes">>[k], Format(table_name), <<>>, <<>>)],
              c.db)

\* `if limit: query += f" LIMIT {limit}"`
limit_clause(limit) == IF Truthy(limit) THEN Format(limit) ELSE <<>>

\* `if where_clause: query += f" WHERE {where_clause}"`
where_part(where_clause) ==
    IF Truthy(where_clause) THEN Format(where_clause) ELSE <<>>

load_table_data(c, table_name, engine, limit, where_clause) ==
    IF Chosen(c, engine).type = "none" THEN ConnectFirst(c)
    ELSE LET query == Stmt("SELECT * FROM", Format(table_name),
                           where_part(where_clause), limit_clause(limit))
             read  == read_sql(c.db, query, Chosen(c, engine))
         IN  IF read.ok THEN Done(c, read.table, <<query>>, c.db)
             ELSE Failed(c, IF Reachable(Chosen(c, engine))
                            THEN <<query>> ELSE <<>>)

execute_query(c, query, engine) ==
    IF Chosen(c, engine).type = "none" THEN ConnectFirst(c)
    ELSE LET read == read_sql(c.db, query, Chosen(c, engine))
         IN  IF read.ok THEN Done(c, read.table, <<query>>, c.db)
             ELSE Failed(c, IF Reachable(Chosen(c, engine))
                            THEN <<query>> ELSE <<>>)

\* df.to_sql(table_name, engine, if_exists=if_exists, index=False)
to_sql(c, d, table_name, engine, if_exists) ==
    IF ~Reachable(engine) THEN Failed(c, <<>>)
    ELSE IF \/ Format(table_name) \notin DOMAIN c.db
            \/ if_exists \notin {"fail", "replace"}
            \/ if_exists = "fail" /\ Exists(c.db, Format(table_name))
    THEN Failed(c, <<>>)
    ELSE Done(c, TRUE, <<Stmt("to_sql", Format(table_name), <<>>, <<>>)>>,
              [c.db EXCEPT ![Format(table_name)] = reset_index(d)])

save_to_database(c, d, table_name, engine, if_exists) ==
    IF Chosen(c, engine).type = "none" THEN ConnectFirst(c)
    ELSE to_sql(c, d, table_name, Chosen(c, engine), if_exists)

get_table_row_count(c, table_name, engine) ==
    IF Chosen(c, engine).type = "none" THEN ConnectFirst(c)
    ELSE IF ~Reachable(Chosen(c, engine)) THEN Failed(c, <<>>)
    ELSE LET query == Stmt("SELECT COUNT(*) as count FROM",
                           Format(table_name), <<>>, <<>>)
         IN  IF Exists(c.db, query.name)
             THEN Done(c, NRows(c.db[query.name]), <<query>>, c.db)
             ELSE Failed(c, <<query>>)

get_column_statistics(c, table_name, column_name, engine) ==
    IF Chosen(c, engine).type = "none" THEN ConnectFirst(c)
    ELSE IF ~Reachable(Chosen(c, engine)) THEN Failed(c, <<>>)
    ELSE LET query == Stmt("SELECT COUNT(*) as total_count, ... FROM",
                           Format(table_name), Format(column_name), <<>>)
         IN  IF Exists(c.db, query.name) /\ HasCol(c.db[query.name], query.arg)
                /\ c.db[query.name].kinds[ColPos(c.db[query.name], query.arg)] = "num"
             THEN LET t   == c.db[query.name]
                      col == Column(t, ColPos(t, query.arg))
                  IN  Done(c, [total_count    |-> NRows(t),
                               non_null_count |-> Len(Present(col)),
                               null_count     |-> NRows(t) - Len(Present(col)),
                               unique_count   |-> Cardinality(Range(Present(col))),
                               min_value      |-> ColMin(col),
                               max_value      |-> ColMax(col)],
                           <<query>>, c.db)
             ELSE Failed(c, <<query>>)

create_table_from_dataframe(c, d, table_name, engine) ==
    IF Chosen(c, engine).type = "none" THEN ConnectFirst(c)
    ELSE to_sql(c, d, table_name, Chosen(c, engine), "replace")

backup_table(c, table_name, backup_table_name, engine) ==
    IF Chosen(c, engine).type = "none" THEN ConnectFirst(c)
    ELSE IF ~Reachable(Chosen(c, engine)) THEN Failed(c, <<>>)
    ELSE LET query == Stmt("CREATE TABLE AS SELECT * FROM", Format(table_name),
                           Format(backup_table_name), <<>>)
         IN  IF /\ Exists(c.db, query.name)
                /\ query.arg \in DOMAIN c.db
                /\ ~Exists(c.db, query.arg)
             THEN Done(c, TRUE, <<query, Stmt("COMMIT", <<>>, <<>>, <<>>)>>,
                       [c.db EXCEPT ![query.arg] = c.db[query.name]])
             ELSE Failed(c, <<query>>)

\* (variant) drop_table without the check for an engine: None.connect()
\* raises inside the try
drop_table_unchecked(c, table_name, engine) ==
    IF ~Reachable(Chosen(c, engine)) THEN Failed(c, <<>>)
    ELSE Done(c, TRUE,
              <<Stmt("DROP TABLE IF EXISTS", Format(table_name), <<>>, <<>>),
                Stmt("COMMIT", <<>>, <<>>, <<>>)>>,
              IF Format(table_name) \in DOMAIN c.db
              THEN [c.db EXCEPT ![Format(table_name)] = NoTable] ELSE c.db)

drop_table(c, table_name, engine) ==
    IF Chosen(c, engine).type = "none" THEN ConnectFirst(c)
    ELSE IF ~Reachable(Chosen(c, engine)) THEN Failed(c, <<>>)
    ELSE LET query == Stmt("DROP TABLE IF EXISTS", Format(table_name),
                           <<>>, <<>>)
         IN  Done(c, TRUE, <<query, Stmt("COMMIT", <<>>, <<>>, <<>>)>>,
                  IF query.name \in DOMAIN c.db
                  THEN [c.db EXCEPT ![query.name] = NoTable] ELSE c.db)

\* `if self.engine:` disposes of the engine and forgets it
close_connection(c) ==
    Answer("ok", NoneV, <<>>, IF Truthy(c.engine) THEN NoneV ELSE c.engine,
           c.made, c.db)

test_connection(c, engine) ==
    IF Chosen(c, engine).type = "none" THEN Done(c, FALSE, <<>>, c.db)
    ELSE IF ~Reachable(Chosen(c, engine)) THEN Done(c, FALSE, <<>>, c.db)
    ELSE Done(c, TRUE, <<Stmt("SELECT 1", <<>>, <<>>, <<>>)>>, c.db)

\* the dialect name of an engine, from the driver prefix of its URL
Dialect(engine) ==
    CASE engine.text[1] = "mysql+pymysql://"       -> "mysql"
      [] engine.text[1] = "postgresql+psycopg2://" -> "postgresql"
      [] engine.text[1] = "sqlite:///"             -> "sqlite"

get_database_info(c, engine) ==
    IF Chosen(c, engine).type = "none" THEN ConnectFirst(c)
    ELSE IF ~Reachable(Chosen(c, engine)) THEN Failed(c, <<>>)
    ELSE Done(c, [database_type    |-> Dialect(Chosen(c, engine)),
                  database_version |-> "version",
                  tables           |-> TableNames(c.db),
                  table_count      |-> Len(TableNames(c.db))],
              <<Stmt("table names", <<>>, <<>>, <<>>),
                Stmt("table names", <<>>, <<>>, <<>>),
                Stmt(CASE Dialect(Chosen(c, engine)) = "mysql"
                            -> "SELECT VERSION() as version"
                       [] Dialect(Chosen(c, engine)) = "postgresql"
                            -> "SELECT version() as version"
                       [] Dialect(Chosen(c, engine)) = "sqlite"
                            -> "SELECT sqlite_version() as version",
                     <<>>, <<>>, <<>>)>>,
              c.db)

-----------------------------------------------------------------------------
(* The DatabaseConnector specification: one caller calls the methods of    *)
(* one connector on one database, one call at a time.                      *)

\* the table orders of the database, and a frame to save
OrdersTable ==
    MakeTable(<< <<RInt(1), <<"x">> >>, <<RInt(2), <<"y">> >>,
                 <<RInt(3), <<"x">> >> >>, FALSE)

SavedFrame == MakeTable(<< <<RInt(4), NA>> >>, TRUE)

Databases ==
    {[name \in {ORDERS, BACKUP} |->
        IF name = ORDERS THEN OrdersTable ELSE backup] :
            backup \in {NoTable, SavedFrame}}

DbTypes      == {"MySQL", "sqlite", "oracle"}
DbNames      == {"shop", "down"}
TableArgs    == {Str(ORDERS), Str(<<"missing">>)}
LimitArgs    == {NoneV, IntV(0), IntV(1), IntV(2)}
WhereArgs    == {NoneV, Str(<<"">>), Str(A_GT_1), Str(<<"a >">>)}
ColumnArgs   == {Str(A), Str(ZZ)}
IfExistsArgs == {"replace", "fail"}

\* the engine argument of a call: left out, or the engine connect returned
EngineArgs == {NoneV, conn.known}

\* a call with the argument order of app.py:178: the engine where the table
\* name goes and the name where the engine goes
Swapped == conn.known.type = "engine"

ConnInit ==
    /\ conn \in {[NoConn EXCEPT !.db = db] : db \in Databases}
    /\ session = NoSession
    /\ df = NoTable
    /\ scalers = {}
    /\ encoders = <<>>
    /\ last = NoCall
    /\ source = NoSource
    /\ loaded = NoLoad

\* the call op(args) ran to its end with answer r
Did(op, args, r) ==
    /\ conn' = [engine |-> r.engine,
                made   |-> r.made,
                known  |-> IF op = "connect" /\ r.outcome = "ok"
                           THEN r.value ELSE conn.known,
                db     |-> r.db,
                reply  |-> [op |-> op, args |-> args, held |-> conn.engine,
                            before |-> conn.db, outcome |-> r.outcome,
                            value |-> r.value, statements |-> r.statements]]
    /\ UNCHANGED <<session, procVars, loadVars>>

Connect ==
    /\ conn.made < MaxEngines
    /\ \E db_type \in DbTypes, database \in DbNames :
        Did("connect", [db_type |-> db_type, database |-> database],
            connect(conn, db_type, database))

GetTables ==
    \E engine \in EngineArgs :
        Did("get_tables", [engine |-> engine], get_tables(conn, engine))

GetTableInfo ==
    \E table_name \in TableArgs, engine \in EngineArgs :
        Did("get_table_info", [table_name |-> table_name, engine |-> engine],
            get_table_info(conn, table_name, engine))

LoadTableData ==
    \/ \E table_name \in TableArgs, engine \in EngineArgs,
          limit \in LimitArgs, where_clause \in WhereArgs :
            Did("load_table_data",
                [table_name |-> table_name, engine |-> engine,
                 limit |-> limit, where_clause |-> where_clause],
                load_table_data(conn, table_name, engine, limit, where_clause))
    \/ /\ Swapped
       /\ Did("load_table_data",
              [table_name |-> conn.known, engine |-> Str(ORDERS),
               limit |-> NoneV, where_clause |-> NoneV],
              load_table_data(conn, conn.known, Str(ORDERS), NoneV, NoneV))

ExecuteQuery ==
    \E name \in {ORDERS, <<"missing">>}, engine \in EngineArgs :
        Did("execute_query",
            [query |-> Stmt("SELECT * FROM", name, <<>>, <<>>),
             engine |-> engine],
            execute_query(conn, Stmt("SELECT * FROM", name, <<>>, <<>>), engine))

SaveToDatabase ==
    \E table_name \in {Str(ORDERS), Str(BACKUP)}, engine \in EngineArgs,
       if_exists \in IfExistsArgs :
        Did("save_to_database",
            [table_name |-> table_name, engine |-> engine,
             if_exists |-> if_exists],
            save_to_database(conn, SavedFrame, table_name, engine, if_exists))

GetTableRowCount ==
    \E table_name \in TableArgs, engine \in EngineArgs :
        Did("get_table_row_count",
            [table_name |-> table_name, engine |-> engine],
            get_table_row_count(conn, table_name, engine))

GetColumnStatistics ==
    \E table_name \in TableArgs, column_name \in ColumnArgs,
       engine \in EngineArgs :
        Did("get_column_statistics",
            [table_name |-> table_name, column_name |-> column_name,
             engine |-> engine],
            get_column_statistics(conn, table_name, column_name, engine))

CreateTableFromDataframe ==
    \E engine \in EngineArgs :
        Did("create_table_from_dataframe",
            [table_name |-> Str(BACKUP), engine |-> engine],
            create_table_from_dataframe(conn, SavedFrame, Str(BACKUP), engine))

BackupTable ==
    \E table_name \in TableArgs, engine \in EngineArgs :
        Did("backup_table",
            [table_name |-> table_name, backup_table_name |-> Str(BACKUP),
             engine |-> engine],
            backup_table(conn, table_name, Str(BACKUP), engine))

DropTable ==
    \E table_name \in {Str(BACKUP), Str(<<"missing">>)},
       engine \in EngineArgs :
        Did("drop_table", [table_name |-> table_name, engine |-> engine],
            drop_table(conn, table_name, engine))

CloseConnection == Did("close_connection", <<>>, close_connection(conn))

TestConnection ==
    \E engine \in EngineArgs :
        Did("test_connection", [engine |-> engine],
            test_connection(conn, engine))

GetDatabaseInfo ==
    \E engine \in EngineArgs :
        Did("get_database_info", [engine |-> engine],
            get_database_info(conn, engine))

ConnNext ==
    \/ Connect
    \/ GetTables
    \/ GetTableInfo
    \/ LoadTableData
    \/ ExecuteQuery
    \/ SaveToDatabase
    \/ GetTableRowCount
    \/ GetColumnStatistics
    \/ CreateTableFromDataframe
    \/ BackupTable
    \/ DropTable
    \/ CloseConnection
    \/ TestConnection
    \/ GetDatabaseInfo

ConnectorSpec == ConnInit /\ [][ConnNext]_vars

-----------------------------------------------------------------------------
(* The pages of the app (src/app.py).  A page function takes the session   *)
(* record and what the widgets return in this run and gives the session    *)
(* record the run leaves.                                                  *)

NO_ACTION   == "none"            \* "不处理"
REMOVE_DUPS == "remove_dups"     \* "删除重复行"

\* the page returned at `if st.session_state.data is None`
Warned(s, page) == [s EXCEPT !.run = [NoRun EXCEPT !.page = page,
                                                   !.outcome = "warning",
                                                   !.before = s.data]]

\* the file branch of the import page: the load returned the table
\* result.t, or raised (result.some = FALSE) and the page showed the error
show_data_import_page(s, result) ==
    IF result.some
    THEN [s EXCEPT !.data = result,
                   !.loads = s.loads + 1,
                   !.run = [NoRun EXCEPT !.page = "import", !.outcome = "ok",
                                         !.before = s.data]]
    ELSE [s EXCEPT !.run = [NoRun EXCEPT !.page = "import",
                                         !.outcome = "error",
                                         !.before = s.data]]

CallOf(op, args, r) == [op |-> op, args |-> args, outcome |-> r.outcome]

\* the database branch of the import page, connect_button and load_button
\* being what the two st.button calls return in this run; the result is
\* the session and the connector the run leaves
show_data_import_page_db(s, c, connect_button, load_button, db_type, database) ==
    LET idle == [NoRun EXCEPT !.page = "import_db", !.before = s.data,
                              !.pressed = IF load_button THEN "load" ELSE ""]
    IN
    IF ~connect_button THEN [session |-> [s EXCEPT !.run = idle], conn |-> c]
    ELSE
    LET c0 == [NoConn EXCEPT !.db = c.db]
        r  == connect(c0, Lower(db_type), database)
        c1 == [c0 EXCEPT !.engine = r.engine, !.made = r.made]
        k1 == CallOf("connect", [db_type |-> Lower(db_type)], r)
    IN
    IF r.outcome # "ok"
    THEN [session |-> [s EXCEPT !.run = [idle EXCEPT !.pressed = "connect",
                                                     !.outcome = "error",
                                                     !.calls = <<k1>>]],
          conn |-> c1]
    ELSE
    LET connection == r.value
        tables == get_tables(c1, connection)
        k2 == CallOf("get_tables", [engine |-> connection], tables)
        selected_table == IF tables.outcome = "ok" /\ tables.value # <<>>
                          THEN Str(tables.value[1]) ELSE NoneV
        load == load_table_data(c1, connection, selected_table, NoneV, NoneV)
        k3 == CallOf("load_table_data",
                     [table_name |-> connection, engine |-> selected_table],
                     load)
    IN
    IF tables.outcome # "ok"
    THEN [session |-> [s EXCEPT !.run = [idle EXCEPT !.pressed = "connect",
                                                     !.outcome = "error",
                                                     !.calls = <<k1, k2>>]],
          conn |-> c1]
    ELSE IF ~load_button
    THEN [session |-> [s EXCEPT !.run = [idle EXCEPT !.pressed = "connect",
                                                     !.outcome = "ok",
                                                     !.calls = <<k1, k2>>,
                                                     !.load_button = TRUE]],
          conn |-> c1]
    ELSE IF load.outcome # "ok"
    THEN [session |-> [s EXCEPT !.run = [idle EXCEPT !.pressed = "connect",
                                                     !.outcome = "error",
                                                     !.calls = <<k1, k2, k3>>]],
          conn |-> c1]
    ELSE [session |-> [s EXCEPT !.data = Some(load.value),
                                !.loads = s.loads + 1,
                                !.run = [idle EXCEPT !.pressed = "connect",
                                                     !.outcome = "ok",
                                                     !.calls = <<k1, k2, k3>>,
                                                     !.load_button = TRUE]],
          conn |-> c1]

\* (variant) duplicate removal before the missing-value handling
apply_duplicates_first(data, missing_action, duplicate_action) ==
    LET b0 == DfCopy(data)
        r1 == IF duplicate_action = REMOVE_DUPS
              THEN remove_duplicates(b0.t, None, {}, <<>>)
              ELSE Returned(b0, {}, <<>>)
    IN  IF missing_action # NO_ACTION
        THEN handle_missing_values(r1.out, missing_action, {}, <<>>)
        ELSE r1

\* the body of `if st.button("应用数据处理")`: the call result that holds
\* processed_data, or the exception a transform raised
apply_processing(data, missing_action, duplicate_action) ==
    LET b0 == DfCopy(data)
        r1 == IF missing_action # NO_ACTION
              THEN handle_missing_values(b0.t, missing_action, {}, <<>>)
              ELSE Returned(b0, {}, <<>>)
    IN  IF r1.outcome = "ok" /\ duplicate_action = REMOVE_DUPS
        THEN remove_duplicates(r1.out, None, {}, <<>>)
        ELSE r1

\* the analysis page with the apply button pressed
show_data_analysis_page(s, missing_action, duplicate_action) ==
    IF ~s.data.some THEN Warned(s, "analysis")
    ELSE LET r   == apply_processing(s.data.t, missing_action, duplicate_action)
             run == [NoRun EXCEPT !.page = "analysis", !.pressed = "apply",
                                  !.before = s.data,
                                  !.options = <<missing_action, duplicate_action>>]
         IN  IF r.outcome = "ok"
             THEN [s EXCEPT !.processed_data = Some(r.out),
                            !.origin = s.data.t,
                            !.derived = s.loads,
                            !.run = [run EXCEPT !.outcome = "ok"]]
             ELSE [s EXCEPT !.run = [run EXCEPT !.outcome = "error"]]

\* `processed_data if processed_data is not None else data`
Working(s) == IF s.processed_data.some THEN s.processed_data ELSE s.data

\* the load the working table stems from
WorkingGen(s) == IF s.processed_data.some THEN s.derived ELSE s.loads

show_chart_display_page(s) ==
    IF ~s.data.some THEN Warned(s, "chart")
    ELSE [s EXCEPT !.run = [NoRun EXCEPT !.page = "chart", !.outcome = "ok",
                                         !.before = s.data,
                                         !.consumed = Working(s),
                                         !.gen = WorkingGen(s)]]

\* str(x) of a number cell of an int64 or a float64 column
Numeral(x, float) ==
    IF x[2] = 1 THEN NumStr(x[1], float)
    ELSE CASE x = <<3, 2>> -> "1.5"

\* the field to_csv writes for a cell: nothing for a missing cell
CsvField(kind, c, float) ==
    IF IsNA(c) THEN <<>>
    ELSE IF kind = "num" THEN <<Numeral(c, float)>>
    ELSE c

\* DataFrame.to_csv(index=False) as lines of characters: the header, then a
\* line for each row; float[j] tells whether column j is float64
to_csv(t, float) ==
    <<Join(t.cols, COMMA)>> \o
    [i \in 1..NRows(t) |->
        IF NCols(t) = 1 /\ IsNA(t.rows[i][1]) THEN <<QUOTES>>
        ELSE Join([j \in 1..NCols(t) |->
                      CsvField(t.kinds[j], t.rows[i][j], float[j])], COMMA)]

\* the columns of the working table that are float64: the numeric columns
\* that held a missing cell when the table was loaded
FloatColumns(s) ==
    LET raw == IF s.processed_data.some THEN s.origin ELSE s.data.t
    IN  [j \in 1..NCols(raw) |-> IsFloatCol(Column(raw, j))]

\* the export page: options is [format, export_all, start_row, end_row,
\* selected_columns]
show_report_export_page(s, options) ==
    IF ~s.data.some THEN Warned(s, "export")
    ELSE
    LET data == Working(s).t
        run  == [NoRun EXCEPT !.page = "export", !.before = s.data,
                              !.options = options,
                              !.consumed = Working(s), !.gen = WorkingGen(s)]
        js   == IF options.selected_columns # <<>>
                THEN ColPositions(data, options.selected_columns)
                ELSE AllCols(data)
        rows == IF options.export_all THEN data
                ELSE TakeRows(data, [k \in 1..(options.end_row - options.start_row)
                                        |-> options.start_row + k])
        float == FloatColumns(s)
    IN  IF ~options.export_all /\ NRows(data) = 0
        THEN [s EXCEPT !.run = [run EXCEPT !.outcome = "error"]]
        ELSE [s EXCEPT !.run =
                [run EXCEPT !.outcome = "ok",
                            !.csv = IF options.format = "CSV"
                                    THEN to_csv(TakeCols(rows, js),
                                                [k \in 1..Len(js) |-> float[js[k]]])
                                    ELSE <<>>]]

-----------------------------------------------------------------------------
(* The session specification: one user session of the app, one page run at *)
(* a time.                                                                 *)

\* loads in one session
MaxLoads == 2

\* tables a load can return
SessionTables ==
    {MakeTable(rows, FALSE) :
        rows \in {<< <<RInt(1), NA>>, <<NA, <<"x">> >> >>,
                  << <<RInt(1), NA>>, <<RInt(1), <<"x">> >> >>,
                  << <<RInt(1), <<"x">> >>, <<RInt(2), <<"y">> >> >>,
                  << <<RInt(2), <<"y">> >>, <<RInt(2), <<"y">> >>,
                     <<NA, <<"y">> >> >>}}

MissingActions   == {NO_ACTION, M_DROP, M_MEAN, M_MEDIAN, M_MODE}
DuplicateActions == {NO_ACTION, REMOVE_DUPS}

ExportOptions ==
    {[format |-> f, export_all |-> all, start_row |-> 0, end_row |-> 1,
      selected_columns |-> cols] :
        f \in {"CSV", "Excel", "JSON"}, all \in BOOLEAN, cols \in {<<>>, <<T>>}}

SessionInit ==
    /\ session = NoSession
    /\ conn \in {[NoConn EXCEPT !.db = db] : db \in Databases}
    /\ df = NoTable
    /\ scalers = {}
    /\ encoders = <<>>
    /\ last = NoCall
    /\ source = NoSource
    /\ loaded = NoLoad

\* a run of a page that leaves the connector alone
Ran(s) ==
    /\ session' = s
    /\ UNCHANGED <<conn, procVars, loadVars>>

ImportFile ==
    /\ session.loads < MaxLoads
    /\ \E result \in {NoneT} \cup {Some(t) : t \in SessionTables} :
        Ran(show_data_import_page(session, result))

\* a run of the import page started by pressing one of its two buttons: the
\* button pressed returns True in that run and the other one False; the
\* load button can be pressed only when the run before drew it
ImportDatabase ==
    /\ session.loads < MaxLoads
    /\ \E pressed \in {"connect", "load"},
          db_type \in {"MySQL", "SQLite"}, database \in DbNames :
        /\ pressed = "load" => session.run.load_button
        /\ LET p == show_data_import_page_db(session, conn, pressed = "connect",
                                             pressed = "load", db_type, database)
           IN  /\ session' = p.session
               /\ conn' = p.conn
    /\ UNCHANGED <<procVars, loadVars>>

ApplyProcessing ==
    \E missing_action \in MissingActions, duplicate_action \in DuplicateActions :
        Ran(show_data_analysis_page(session, missing_action, duplicate_action))

Chart == Ran(show_chart_display_page(session))

Export ==
    \E options \in ExportOptions :
        Ran(show_report_export_page(session, options))

SessionNext ==
    \/ ImportFile
    \/ ImportDatabase
    \/ ApplyProcessing
    \/ Chart
    \/ Export

SessionSpec == SessionInit /\ [][SessionNext]_vars

-----------------------------------------------------------------------------
(* Properties of the DataProcessor (specification Spec) *)

Called == last.op # "none"
Ok     == last.ret.outcome = "ok"

\* the call was to a table method of the DataLoader, not to a transform
LoaderCall == last.op \in {"validate_data", "sample_data"}

SameShape(t, u) == t.cols = u.cols /\ NRows(t) = NRows(u)

\* C1: every transform returns a table object that is not its input, and
\* leaves the rows, columns, labels and cells of its input as they were.
C1_InputUntouched ==
    (Called /\ ~LoaderCall) =>
        /\ last.ret.inp = last.before
        /\ df = last.before
        /\ (Ok => ~last.ret.outIsIn)

\* a mean fill that filled a cell, so that the returned table differs from
\* the table passed in
C1_Witness ==
    /\ last.op = "handle_missing_values"
    /\ last.args.method = M_MEAN
    /\ Ok
    /\ last.ret.out.rows # last.before.rows
    /\ df = last.before

\* C2: a transform that fails leaves no partial state: the input table and
\* the scalers and encoders maps are as they were before the call.
C2_NoPartialState ==
    (Called /\ ~Ok) =>
        /\ last.ret.inp = last.before
        /\ scalers = last.scBefore
        /\ encoders = last.enBefore

\* the method names each operation supports
Supported(op) ==
    CASE op = "handle_missing_values" -> {M_DROP, M_MEAN, M_MEDIAN, M_MODE}
      [] op = "remove_outliers"       -> {"iqr", "zscore"}
      [] op = "normalize_data"        -> {"standard", "minmax"}
      [] op = "encode_categorical"    -> {"label", "onehot"}
      [] OTHER                        -> {""}

TakesMethod ==
    last.op \in {"handle_missing_values", "remove_outliers", "normalize_data",
                 "encode_categorical"}

\* C3: an operation called with a method name it does not support fails
\* with a ValueError instead of returning a table.
C3_UnknownMethodFails ==
    (TakesMethod /\ last.args.method \notin Supported(last.op)) =>
        last.ret.outcome = "ValueError"

\* the call op(d, args) on a processor in state sc, en
Apply(op, d, args, sc, en) ==
    CASE op = "remove_outliers" ->
            remove_outliers(d, args.columns, args.method, sc, en)
      [] op = "normalize_data" ->
            normalize_data(d, args.columns, args.method, sc, en)
      [] op = "encode_categorical" ->
            encode_categorical(d, args.columns, args.method, sc, en)

\* the names of a column list that the table has
PresentNames(t, names) ==
    LET ks == SelectIdx(Len(names), [k \in 1..Len(names) |-> HasCol(t, names[k])], 1)
    IN  [k \in 1..Len(ks) |-> names[ks[k]]]

\* C4: a requested column that the table lacks is skipped silently: the
\* call ends as the same call without the absent names ends, and
\* create_bins on an absent column returns a table equal to its input.
C4_AbsentColumnSkipped ==
    /\ ( /\ last.op \in {"remove_outliers", "normalize_data", "encode_categorical"}
         /\ last.args.method \in Supported(last.op)
         /\ last.args.columns.given )
       => LET kept == List(PresentNames(last.before, last.args.columns.names))
              exp  == Apply(last.op, last.before,
                            [last.args EXCEPT !.columns = kept],
                            last.scBefore, last.enBefore)
          IN  /\ last.ret.outcome = exp.outcome
              /\ last.ret.out = exp.out
              /\ scalers = exp.scalers
              /\ encoders = exp.encoders
    /\ ( /\ last.op = "create_bins"
         /\ ~HasCol(last.before, last.args.columns.names[1]) )
       => (Ok /\ last.ret.out = last.before)

\* s is t with some rows left out, the order of the others kept
IsSubsequence(s, t) ==
    \E f \in [1..Len(s) -> 1..Len(t)] :
        /\ \A k \in 1..Len(s) : s[k] = t[f[k]]
        /\ \A k \in 1..(Len(s) - 1) : f[k] < f[k + 1]

CompleteRow(r) == \A j \in 1..Len(r) : ~IsNA(r[j])

\* C9: the drop policy returns exactly the input rows that hold no missing
\* value, in their original order, and the result has no missing cell.
C9_DropKeepsCompleteRows ==
    (last.op = "handle_missing_values" /\ last.args.method = M_DROP) =>
        /\ Ok
        /\ last.ret.out.cols = last.before.cols
        /\ \A k \in 1..NRows(last.ret.out) : CompleteRow(last.ret.out.rows[k])
        /\ IsSubsequence(last.ret.out.rows, last.before.rows)
        /\ NRows(last.ret.out) =
              Cardinality({i \in 1..NRows(last.before) : CompleteRow(last.before.rows[i])})
        /\ MissingCount(last.ret.out) = 0

\* a drop that removed some rows and kept others
C9_Witness ==
    /\ last.op = "handle_missing_values"
    /\ last.args.method = M_DROP
    /\ Ok
    /\ NRows(last.ret.out) > 0
    /\ NRows(last.ret.out) < NRows(last.before)

HmvFill ==
    /\ last.op = "handle_missing_values"
    /\ last.args.method \in {M_MEAN, M_MEDIAN}

\* v is the r-th smallest of the values p
IsOrderStat(p, v, r) ==
    /\ v \in Range(p)
    /\ Cardinality({k \in 1..Len(p) : RLess(p[k], v)}) < r
    /\ r <= Cardinality({k \in 1..Len(p) : RLeq(p[k], v)})

\* v is the arithmetic mean of the values p
IsMean(p, v) == RMul(v, RInt(Len(p))) = RSum(p)

\* v is the median of the values p: the middle one, or the mean of the two
\* middle ones
IsMedian(p, v) ==
    LET n == Len(p)
    IN  IF n % 2 = 1 THEN IsOrderStat(p, v, (n + 1) \div 2)
        ELSE \E a, b \in Range(p) :
                /\ IsOrderStat(p, a, n \div 2)
                /\ IsOrderStat(p, b, n \div 2 + 1)
                /\ RAdd(v, v) = RAdd(a, b)

\* v is a most frequent present value of the column
IsMostFrequent(col, v) ==
    /\ v \in Range(Present(col))
    /\ \A w \in Range(Present(col)) : CountOf(col, w) <= CountOf(col, v)

\* C10: the mean (median) policy keeps the row count and every present
\* cell, fills each missing cell of a numeric column with the mean (median)
\* of the column's present values and each missing cell of a non-numeric
\* column with the column's most frequent value; a column with a present
\* value ends with no missing cell, a column without one stays unfilled.
C10_MeanMedianFill ==
    HmvFill =>
        LET in  == last.before
            out == last.ret.out
        IN  /\ Ok
            /\ SameShape(out, in)
            /\ \A j \in 1..NCols(in) :
                 LET col == Column(in, j)
                     p   == Present(col)
                 IN  \A i \in 1..NRows(in) :
                        /\ ~IsNA(col[i]) => out.rows[i][j] = col[i]
                        /\ (IsNA(col[i]) /\ p = <<>>) => IsNA(out.rows[i][j])
                        /\ (IsNA(col[i]) /\ p # <<>>) =>
                              /\ ~IsNA(out.rows[i][j])
                              /\ IF in.kinds[j] # "num"
                                 THEN IsMostFrequent(col, out.rows[i][j])
                                 ELSE IF last.args.method = M_MEAN
                                 THEN IsMean(p, out.rows[i][j])
                                 ELSE IsMedian(p, out.rows[i][j])

\* the example of the spec: [1, 2, None, 4] filled with the mean 7/3, the
\* text column beside it filled with its most frequent value
C10_Witness ==
    /\ last.op = "handle_missing_values"
    /\ last.args.method = M_MEAN
    /\ Ok
    /\ NRows(last.before) = 4
    /\ IsNA(last.before.rows[3][1])
    /\ last.ret.out.rows[3][1] = <<7, 3>>
    /\ IsNA(last.before.rows[4][2])
    /\ last.ret.out.rows[4][2] = <<"x">>

Deduplicated == last.op = "remove_duplicates" /\ Ok

\* the positions of the columns a remove_duplicates call compares
ComparedCols ==
    IF last.args.columns.given
    THEN [k \in 1..Len(last.args.columns.names) |->
            ColPos(last.before, last.args.columns.names[k])]
    ELSE [j \in 1..NCols(last.before) |-> j]

\* the cells of row r in the compared columns
Key(r) == [k \in 1..Len(ComparedCols) |-> r[ComparedCols[k]]]

\* the first row of the input whose compared cells are key
FirstWith(key) ==
    CHOOSE i \in 1..NRows(last.before) :
        /\ Key(last.before.rows[i]) = key
        /\ \A k \in 1..(i - 1) : Key(last.before.rows[k]) # key

\* C11: remove_duplicates returns, for each distinct row value on the
\* compared columns (all columns, or the subset given), exactly its first
\* occurrence; the rows kept are in their original order and no two of
\* them are equal on the compared columns.
C11_KeepsFirstOccurrences ==
    Deduplicated =>
        LET in  == last.before
            out == last.ret.out
        IN  /\ out.cols = in.cols
            /\ \A i \in 1..NRows(in) :
                  \E m \in 1..NRows(out) : Key(out.rows[m]) = Key(in.rows[i])
            /\ \A m \in 1..NRows(out) :
                  /\ \E i \in 1..NRows(in) : Key(in.rows[i]) = Key(out.rows[m])
                  /\ out.rows[m] = in.rows[FirstWith(Key(out.rows[m]))]
            /\ \A m, n \in 1..NRows(out) :
                  m < n => /\ Key(out.rows[m]) # Key(out.rows[n])
                           /\ FirstWith(Key(out.rows[m])) < FirstWith(Key(out.rows[n]))

\* a call comparing a column subset that dropped a row which differs, in
\* another column, from the row kept for it
C11_Witness ==
    /\ Deduplicated
    /\ last.args.columns.given
    /\ NRows(last.ret.out) > 1
    /\ \E i \in 1..NRows(last.before) :
          \A m \in 1..NRows(last.ret.out) : last.ret.out.rows[m] # last.before.rows[i]

\* C12: remove_duplicates is idempotent: applied with the same subset to
\* its own result, it returns that result again, row labels included.
C12_DedupIdempotent ==
    Deduplicated =>
        LET again == remove_duplicates(last.ret.out, last.args.columns,
                                       scalers, encoders)
        IN  /\ again.outcome = "ok"
            /\ again.out = last.ret.out

\* a call that removed a repeat of a row that occurs three times
C12_Witness ==
    /\ Deduplicated
    /\ NRows(last.ret.out) < NRows(last.before)
    /\ \E i, j, k \in 1..NRows(last.before) :
          /\ i < j /\ j < k
          /\ Key(last.before.rows[i]) = Key(last.before.rows[j])
          /\ Key(last.before.rows[j]) = Key(last.before.rows[k])

Reindexing ==
    last.op \in {"handle_missing_values", "remove_duplicates", "remove_outliers"}

Dense(t) == t.idx = [i \in 1..NRows(t) |-> i - 1]

\* C13: the table returned by handle_missing_values, remove_duplicates and
\* remove_outliers has the row labels 0..n-1, n the number of rows kept,
\* whatever the labels of the input were.
C13_DenseIndex ==
    (Reindexing /\ Ok) => Dense(last.ret.out)

\* a call on a table with gaps in its labels that kept some rows and
\* dropped others
C13_Witness ==
    /\ Reindexing
    /\ Ok
    /\ ~Dense(last.before)
    /\ NRows(last.ret.out) > 0
    /\ NRows(last.ret.out) < NRows(last.before)

\* the positions of the columns a call selects: the names given that the
\* table has, or every numeric column when none is given
SelectedCols ==
    IF last.args.columns.given
    THEN ColPositions(last.before,
                      PresentNames(last.before, last.args.columns.names))
    ELSE NumericCols(last.before)

\* C14: remove_outliers with the IQR method returns exactly the input rows
\* whose value in every selected column lies in
\* [Q1 - 1.5*IQR, Q3 + 1.5*IQR], the quartiles taken over that column of
\* the input table, bounds included.
C14_IqrKeepsRowsInBounds ==
    (last.op = "remove_outliers" /\ last.args.method = "iqr" /\ Ok) =>
        LET in   == last.before
            js   == SelectedCols
            keep == [i \in 1..NRows(in) |->
                        \A k \in 1..Len(js) : IqrMask(in, js[k])[i]]
        IN  last.ret.out.rows = TakeRows(in, SelectIdx(NRows(in), keep, 1)).rows

\* self.scalers[c]: the state of the scaler object kept under the key c
ScalerOf(c) == (CHOOSE g \in scalers : c \in g.cols).state

\* C15: after normalize_data has processed columns c1..cn in one call, the
\* parameters kept under each ci are those fitted on the data of ci, never
\* those fitted on a later column.
C15_ScalerPerColumn ==
    (last.op = "normalize_data" /\ Ok) =>
        \A k \in 1..Len(SelectedCols) :
            LET j   == SelectedCols[k]
                c   == last.before.cols[j]
                own == Fitted(last.args.method, c, Column(last.before, j))
            IN  /\ \E g \in scalers : c \in g.cols
                /\ ScalerOf(c).fitted
                /\ ScalerOf(c).p1 = own.p1
                /\ ScalerOf(c).p2 = own.p2

\* the positions of the columns an encode_categorical call encodes: the
\* names given that the table has, or every non-numeric column
EncodedCols ==
    IF last.args.columns.given
    THEN ColPositions(last.before,
                      PresentNames(last.before, last.args.columns.names))
    ELSE NonNumericCols(last.before)

\* the names of the indicator columns of column j of the input: the column
\* name, "_", and each distinct present value as text
IndicatorNames(j) ==
    LET col == Column(last.before, j)
    IN  {DummyName(last.before.cols[j],
                   StrCell(last.before.kinds[j], v, IsFloatCol(col))) :
            v \in Range(Present(col))}

\* C16: one-hot encoding a column with k distinct values removes the
\* column and adds exactly k indicator columns named from the column name
\* and each value, and in every row of the result, a row whose cell in the
\* column is missing included, the k indicators sum to 1.
C16_OneHotRowsSumToOne ==
    (last.op = "encode_categorical" /\ last.args.method = "onehot" /\ Ok) =>
        LET in  == last.before
            out == last.ret.out
            js  == EncodedCols
            enc == {js[k] : k \in 1..Len(js)}
        IN  /\ NRows(out) = NRows(in)
            /\ \A j \in enc : ~HasCol(out, in.cols[j])
            /\ \A j \in enc : \A n \in IndicatorNames(j) : HasCol(out, n)
            /\ Range(out.cols) =
                  {in.cols[j] : j \in (1..NCols(in)) \ enc}
                      \cup UNION {IndicatorNames(j) : j \in enc}
            /\ \A j \in enc : \A i \in 1..NRows(out) :
                  /\ \A n \in IndicatorNames(j) :
                        out.rows[i][ColPos(out, n)] \in {RInt(0), RInt(1)}
                  /\ Cardinality({n \in IndicatorNames(j) :
                                    out.rows[i][ColPos(out, n)] = RInt(1)}) = 1

\* C17: label encoding gives, within each encoded column, equal cells the
\* same integer code and distinct cells distinct codes, the codes being
\* 0..k-1 for k distinct cells; the row count and the other columns are
\* unchanged, and the encoders map keeps an encoder for each encoded column.
C17_LabelCodes ==
    (last.op = "encode_categorical" /\ last.args.method = "label" /\ Ok) =>
        LET in  == last.before
            out == last.ret.out
            js  == EncodedCols
            enc == {js[k] : k \in 1..Len(js)}
        IN  /\ SameShape(out, in)
            /\ \A j \in (1..NCols(in)) \ enc :
                  Column(out, j) = Column(in, j) /\ out.kinds[j] = in.kinds[j]
            /\ \A j \in enc :
                  LET col   == Column(in, j)
                      codes == Column(out, j)
                      k     == Cardinality(Range(col))
                  IN  /\ \A i, m \in 1..NRows(in) :
                            (col[i] = col[m]) <=> (codes[i] = codes[m])
                      /\ Range(codes) = {RInt(c) : c \in 0..(k - 1)}
                      /\ in.cols[j] \in DOMAIN encoders
                      /\ Len(encoders[in.cols[j]].classes) = k

\* a create_bins call on a column the table has, which returned
Binned ==
    /\ last.op = "create_bins"
    /\ HasCol(last.before, last.args.columns.names[1])
    /\ Ok

\* the cell pd.cut gives a value of the k-th bin
BinCell(k) ==
    IF last.args.labels.given THEN last.args.labels.names[k] ELSE <<"bin", k>>

\* C18: create_bins on a present column leaves every existing column, the
\* source column included, as it was and adds exactly one column, named
\* '<column>_binned'; with explicit boundaries a value equal to the lowest
\* boundary falls in the first bin and a value outside the boundaries gets
\* a missing bin.
C18_BinsAddOneColumn ==
    Binned =>
        LET in    == last.before
            out   == last.ret.out
            src   == Column(in, ColPos(in, last.args.columns.names[1]))
            edges == last.args.bins.edges
        IN  /\ NRows(out) = NRows(in)
            /\ NCols(out) = NCols(in) + 1
            /\ out.cols = Append(in.cols, BinnedName(last.args.columns.names[1]))
            /\ \A j \in 1..NCols(in) :
                  Column(out, j) = Column(in, j) /\ out.kinds[j] = in.kinds[j]
            /\ ~last.args.bins.int =>
                  \A i \in 1..NRows(in) :
                     LET x == src[i]
                         b == out.rows[i][NCols(out)]
                     IN  /\ (~IsNA(x) /\ x = edges[1]) => b = BinCell(1)
                         /\ (~IsNA(x) /\ (RLess(x, edges[1])
                                            \/ RLess(edges[Len(edges)], x)))
                               => IsNA(b)

QualityReport == last.op = "detect_data_quality_issues" /\ Ok

\* C19: a column is listed under constant_columns if and only if it holds
\* one cell content in all its rows; a column in which some row holds a
\* second content, a missing cell next to a present value included, is
\* not listed.
C19_ConstantColumns ==
    QualityReport =>
        \A j \in 1..NCols(last.before) :
            (last.before.cols[j] \in Range(last.ret.out.constant_columns))
                <=> (Cardinality(Range(Column(last.before, j))) <= 1)

\* columns p and q hold the same type and, row by row, the same cell
Identical(t, p, q) ==
    /\ t.kinds[p] = t.kinds[q]
    /\ \A i \in 1..NRows(t) : t.rows[i][p] = t.rows[i][q]

\* C20: duplicate_columns holds exactly the pairs of distinct columns that
\* are structurally identical, each pair once, as (earlier column, later
\* column) in column order; no pair of differing columns and no pair
\* (c, c) is listed.
C20_DuplicateColumnPairs ==
    QualityReport =>
        LET t     == last.before
            pairs == last.ret.out.duplicate_columns
        IN  /\ \A p, q \in 1..NCols(t) :
                  p < q => (Identical(t, p, q)
                              <=> <<t.cols[p], t.cols[q]>> \in Range(pairs))
            /\ \A m \in 1..Len(pairs) :
                  \E p, q \in 1..NCols(t) :
                      p < q /\ pairs[m] = <<t.cols[p], t.cols[q]>>
            /\ Cardinality(Range(pairs)) = Len(pairs)

\* a report on three columns of which the first and the third are
\* identical and the second differs
C20_Witness ==
    /\ QualityReport
    /\ NCols(last.before) = 3
    /\ last.ret.out.duplicate_columns = << <<A, C>> >>

C24_ValidateData ==
    last.op = "validate_data" =>
        LET t       == last.before
            report  == last.ret.out
            deduped == remove_duplicates(t, None, {}, <<>>).out
            dropped == handle_missing_values(t, M_DROP, {}, <<>>).out
        IN  /\ Ok
            /\ report.duplicate_rows = NRows(t) - NRows(deduped)
            /\ validate_data(deduped, {}, <<>>).out.duplicate_rows = 0
            /\ validate_data(dropped, {}, <<>>).out.missing_values = 0
            /\ report.total_rows = NRows(t)
            /\ report.total_columns = NCols(t)

\* a table with a repeated row and a missing cell was validated
C24_Witness ==
    /\ last.op = "validate_data"
    /\ Ok
    /\ last.ret.out.duplicate_rows > 0
    /\ last.ret.out.missing_values > 0

Reverse(s) == [k \in 1..Len(s) |-> s[Len(s) + 1 - k]]

\* C25: the table remove_outliers returns does not depend on the order in
\* which the columns are listed, for the IQR and for the z-score method.
C25_OutlierOrderIndependent ==
    (last.op = "remove_outliers" /\ Ok
        /\ last.args.method \in {"iqr", "zscore"}) =>
        LET t     == last.before
            names == ColNames(t, SelectedCols)
        IN  remove_outliers(t, List(Reverse(names)), last.args.method,
                            last.scBefore, last.enBefore).out = last.ret.out

-----------------------------------------------------------------------------
(* Properties of the DataLoader (specification LoaderSpec) *)

LoadedCsv == loaded.op = "load_csv"
LoadOkay  == loaded.outcome = "ok"

\* the text a call found in its source, as a file of its own
TextOf(src) == [src EXCEPT !.kind = "path", !.lines = Unread(src), !.pos = 0]

\* the parse of the text of src with one separator
Direct(src, encoding, sep) == read_csv(TextOf(src), encoding, sep)

\* the candidates, by position, whose parse yields more than one column
Yielding(src, encoding) ==
    {k \in 1..Len(separators) :
        LET r == Direct(src, encoding, separators[k])
        IN  r.res = "ok" /\ NCols(r.df) > 1}

Min(S) == CHOOSE k \in S : \A m \in S : k <= m

\* C5: load_csv returns the parse of the first candidate, in the order
\* ',' ';' tab '|', whose parse yields more than one column; when no
\* candidate does, it returns the parse with the default ','.
C5_FirstYieldingCandidate ==
    LoadedCsv =>
        LET ys  == Yielding(loaded.src, loaded.encoding)
            def == Direct(loaded.src, loaded.encoding, COMMA)
        IN  IF ys # {}
            THEN /\ LoadOkay
                 /\ loaded.raw = Direct(loaded.src, loaded.encoding,
                                        separators[Min(ys)]).df
            ELSE def.res = "ok" => (LoadOkay /\ loaded.raw = def.df)

\* C6: a source whose text uses ';' as separator with at least two columns,
\* a file path or an uploaded byte stream, loads to a table of more than
\* one column that equals the direct parse with ';'.
C6_SemicolonFile ==
    LET semi == Direct(loaded.src, loaded.encoding, SEMI)
    IN  (LoadedCsv /\ semi.res = "ok" /\ NCols(semi.df) > 1) =>
            /\ LoadOkay
            /\ NCols(loaded.raw) > 1
            /\ loaded.table = CleanLoaded(semi.df)

HasEmptyRow(t) == \E i \in 1..NRows(t) : \A j \in 1..NCols(t) : IsNA(t.rows[i][j])
HasEmptyCol(t) == \E j \in 1..NCols(t) : \A i \in 1..NRows(t) : IsNA(t.rows[i][j])

\* the positions, in order, of the rows and of the columns of t that hold
\* a present cell
FilledRows(t) ==
    SelectIdx(NRows(t), [i \in 1..NRows(t) |->
                            \E j \in 1..NCols(t) : ~IsNA(t.rows[i][j])], 1)
FilledCols(t) ==
    SelectIdx(NCols(t), [j \in 1..NCols(t) |->
                            \E i \in 1..NRows(t) : ~IsNA(t.rows[i][j])], 1)

\* C7: a loaded table has no row and no column whose cells are all missing,
\* its row labels are 0..n-1, and it holds every parsed row and column that
\* has a present cell, in the original order.
C7_LoadedTableClean ==
    (loaded.op # "none" /\ LoadOkay) =>
        LET t  == loaded.table
            is == FilledRows(loaded.raw)
            js == FilledCols(loaded.raw)
        IN  /\ ~HasEmptyRow(t)
            /\ ~HasEmptyCol(t)
            /\ t.idx = [i \in 1..NRows(t) |-> i - 1]
            /\ NRows(t) = Len(is)
            /\ t.cols = [m \in 1..Len(js) |-> loaded.raw.cols[js[m]]]
            /\ \A k \in 1..Len(is) :
                 t.rows[k] = [m \in 1..Len(js) |-> loaded.raw.rows[is[k]][js[m]]]

\* a load that dropped an empty row and an empty column and kept the rest
C7_Witness ==
    /\ loaded.op # "none"
    /\ LoadOkay
    /\ HasEmptyRow(loaded.raw)
    /\ NCols(loaded.table) < NCols(loaded.raw)
    /\ NRows(loaded.table) > 0
    /\ NRows(loaded.table) < NRows(loaded.raw)

\* C8: a load returns a table or fails with a load error, and a source
\* whose result is empty fails instead of returning an empty table.
C8_EmptyResultFails ==
    loaded.op # "none" =>
        /\ loaded.outcome \in {"ok", "Exception"}
        /\ LoadOkay => (NRows(loaded.table) > 0 /\ NCols(loaded.table) > 0)


-----------------------------------------------------------------------------
(* Properties of the DatabaseConnector (specification ConnectorSpec) *)

Replied == conn.reply.op # "none"

\* the call was made with no engine held and none passed
NoEngineAtAll ==
    /\ conn.reply.held.type = "none"
    /\ conn.reply.op \notin {"connect", "close_connection"}
    /\ conn.reply.args.engine.type = "none"

\* C27: with no engine held and none passed, get_tables, get_table_info,
\* load_table_data, execute_query, save_to_database, get_table_row_count,
\* get_column_statistics, backup_table, drop_table and get_database_info
\* fail with the connect-first ValueError and issue no statement,
\* test_connection returns False, and close_connection does nothing, as
\* often as it is called.
C27_ConnectFirst ==
    /\ (Replied /\ NoEngineAtAll) =>
        /\ conn.reply.statements = <<>>
        /\ conn.db = conn.reply.before
        /\ conn.engine.type = "none"
        /\ conn.reply.op \in
                {"get_tables", "get_table_info", "load_table_data",
                 "execute_query", "save_to_database", "get_table_row_count",
                 "get_column_statistics", "backup_table", "drop_table",
                 "get_database_info"}
              => conn.reply.outcome = "ValueError"
        /\ conn.reply.op = "test_connection"
              => conn.reply.outcome = "ok" /\ conn.reply.value = FALSE
    /\ (conn.reply.op = "close_connection" /\ conn.reply.held.type = "none") =>
        /\ conn.reply.outcome = "ok"
        /\ conn.reply.statements = <<>>
        /\ conn.engine.type = "none"
        /\ conn.db = conn.reply.before
        /\ close_connection(conn).engine = conn.engine

\* drop_table was called on a connector that had closed its connection
C27_Witness ==
    /\ conn.reply.op = "drop_table"
    /\ NoEngineAtAll
    /\ conn.made > 0
    /\ conn.reply.outcome = "ValueError"

\* C28: a connect that fails, for an unsupported database kind or because
\* the 'SELECT 1' test fails, leaves the held engine as it was.
C28_FailedConnectKeepsEngine ==
    (conn.reply.op = "connect" /\ conn.reply.outcome # "ok") =>
        conn.engine = conn.reply.held

\* C30: load_table_data with a limit n >= 0 returns at most n rows, with a
\* filter only rows that satisfy it, and with both the first n of the rows
\* that satisfy the filter.
C30_LimitAndFilter ==
    (conn.reply.op = "load_table_data" /\ conn.reply.outcome = "ok") =>
        LET args == conn.reply.args
            t    == conn.reply.before[Format(args.table_name)]
            out  == conn.reply.value
            sat  == SelectIdx(NRows(t),
                        [i \in 1..NRows(t) |->
                            \/ args.where_clause # Str(A_GT_1)
                            \/ RLess(RInt(1), t.rows[i][1])], 1)
        IN  /\ args.limit.type = "int" => NRows(out) <= args.limit.n
            /\ args.where_clause = Str(A_GT_1) =>
                  \A i \in 1..NRows(out) : RLess(RInt(1), out.rows[i][1])
            /\ (args.limit.type = "int" /\ args.limit.n <= Len(sat)) =>
                  out.rows = [k \in 1..args.limit.n |-> t.rows[sat[k]]]


-----------------------------------------------------------------------------
(* Properties of the app session (specification SessionSpec) *)

\* the file a downloaded CSV text is saved as
SavedCsv(lines) ==
    [kind |-> "path", lines |-> lines, pos |-> 0, enc |-> "ascii",
     sheets |-> <<>>]

\* C22: the working table, exported whole to CSV on the export page and
\* loaded again with load_csv in the same encoding, comes back with the
\* same number of rows and of columns and with equal cells, numbers
\* compared as the text they were written as.
C22_CsvRoundTrip ==
    (/\ session.run.page = "export"
     /\ session.run.outcome = "ok"
     /\ session.run.options.format = "CSV"
     /\ session.run.options.export_all
     /\ session.run.options.selected_columns = <<>>) =>
        LET t     == session.run.consumed.t
            float == FloatColumns(session)
            back  == load_csv(SavedCsv(session.run.csv), "utf-8")
        IN  /\ back.outcome = "ok"
            /\ NRows(back.table) = NRows(t)
            /\ NCols(back.table) = NCols(t)
            /\ \A i \in 1..NRows(t), j \in 1..NCols(t) :
                  back.table.rows[i][j] =
                      FieldCell(CsvField(t.kinds[j], t.rows[i][j], float[j]))

\* C23: the table a chart or export run consumes is the raw table of the
\* latest load or a processed table computed from it; after a new load has
\* succeeded no processed table of an earlier load is consumed.
C23_ConsumesCurrentLoad ==
    (session.run.page \in {"chart", "export"} /\ session.run.consumed.some) =>
        /\ session.run.gen = session.loads
        /\ \/ session.run.consumed = session.data
           \/ /\ session.run.consumed = session.processed_data
              /\ session.origin = session.data.t

\* C26: a processed table exists only if a raw table exists; a run of
\* apply-processing leaves the raw table as it was and computes the
\* processed table from the raw table, the missing-value handling first and
\* the duplicate removal second.
C26_ProcessedFromRaw ==
    /\ session.processed_data.some => session.data.some
    /\ session.run.page = "analysis" =>
        /\ session.data = session.run.before
        /\ session.run.outcome = "ok" =>
            LET raw    == session.run.before.t
                filled == IF session.run.options[1] = NO_ACTION THEN raw
                          ELSE handle_missing_values(raw, session.run.options[1],
                                                     {}, <<>>).out
                result == IF session.run.options[2] = REMOVE_DUPS
                          THEN remove_duplicates(filled, None, {}, <<>>).out
                          ELSE filled
            IN  /\ session.processed_data = Some(result)
                /\ session.origin = raw

\* processing was applied a second time, to a raw table in which filling
\* the missing text makes two rows equal
C26_Witness ==
    /\ session.run.page = "analysis"
    /\ session.run.outcome = "ok"
    /\ session.run.options = <<M_MODE, REMOVE_DUPS>>
    /\ NRows(session.processed_data.t) < NRows(session.data.t)
    /\ MissingCount(session.data.t) > 0
    /\ session.loads = MaxLoads

\* C29: a run of the import page started by the load button after a
\* successful connect calls load_table_data with the selected table name
\* as the table and the engine connect returned as the connection, and
\* when the call succeeds the raw table of the session is what it returned.
C29_DatabaseLoad ==
    (session.run.page = "import_db" /\ session.run.pressed = "load") =>
        /\ session.run.calls # <<>>
        /\ LET call == session.run.calls[Len(session.run.calls)]
           IN  /\ call.op = "load_table_data"
               /\ call.args.table_name.type = "str"
               /\ call.args.engine.type = "engine"
               /\ call.outcome = "ok" => session.data.some

=============================================================================
